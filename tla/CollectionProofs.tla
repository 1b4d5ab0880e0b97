-------------------------- MODULE CollectionProofs --------------------------
(* Proofs about the collecting programs for every number of processes,      *)
(* every set of paths and whatever the exchange answers.                    *)
EXTENDS CollectionProperties, SequenceTheorems, TLAPS

(* Some sequence, of whatever.                                              *)
IsSequence(s) == \E S : s \in Seq(S)

Headed(lines) == \A i \in 1..Len(lines) : lines[i] = Header <=> i = 1

(* How far a save has come.                                                 *)
Saving == {"open", "header", "rows"}

LEMMA DistinctLines ==
  /\ Torn # Header /\ Garbled # Header /\ \A bar : Row(bar) # Header
<1>1. Torn.kind # Header.kind /\ Garbled.kind # Header.kind
  BY DEF Torn, Garbled, Header
<1>2. ASSUME NEW bar PROVE Row(bar).kind # Header.kind
  BY DEF Row, Header
<1>. QED
  BY <1>1, <1>2

LEMMA WithLineIsSequence ==
  ASSUME NEW lines, IsSequence(lines), NEW line
  PROVE  IsSequence(with_line(lines, line)) /\ with_line(lines, line) # <<>>
<1>1. PICK S : lines \in Seq(S)
  BY DEF IsSequence
<1>. DEFINE T == S \cup {line, Torn, Garbled}
<1>2. lines \in Seq(T)
  BY <1>1
<1>3. CASE lines # <<>> /\ lines[Len(lines)] = Torn
  <2>1. Len(lines) \in 1..Len(lines)
    BY <1>2, <1>3
  <2>. DEFINE last == IF line = Torn THEN Torn ELSE Garbled
  <2>2. last \in T
    OBVIOUS
  <2>3. [lines EXCEPT ![Len(lines)] = last] \in Seq(T)
    BY <1>2, <2>1, <2>2
  <2>4. Len([lines EXCEPT ![Len(lines)] = last]) = Len(lines)
    BY <1>2, <2>1, <2>2
  <2>5. [lines EXCEPT ![Len(lines)] = last] # <<>>
    BY <2>1, <2>3, <2>4
  <2>. QED
    BY <1>3, <2>3, <2>5 DEF with_line, IsSequence
<1>4. CASE ~(lines # <<>> /\ lines[Len(lines)] = Torn)
  <2>1. line \in T
    OBVIOUS
  <2>2. Append(lines, line) \in Seq(T) /\ Len(Append(lines, line)) = Len(lines) + 1
    <3>. HIDE DEF T
    <3>. QED
      BY <1>2, <2>1
  <2>3. Len(lines) \in Nat
    BY <1>1
  <2>4. Append(lines, line) # <<>>
    BY <2>2, <2>3
  <2>. QED
    BY <1>4, <2>2, <2>4 DEF with_line, IsSequence
<1>. QED
  BY <1>3, <1>4

(* A further line leaves the header of a file alone at its top.             *)
LEMMA WithLineKeepsHead ==
  ASSUME NEW lines, IsSequence(lines), lines # <<>>, Headed(lines),
         NEW line, line # Header
  PROVE  Headed(with_line(lines, line))
<1>1. PICK S : lines \in Seq(S)
  BY DEF IsSequence
<1>. DEFINE T == S \cup {line, Torn, Garbled}
<1>2. lines \in Seq(T) /\ Len(lines) \in Nat /\ Len(lines) >= 1
  BY <1>1
<1>3. CASE lines[Len(lines)] = Torn
  <2>1. Len(lines) # 1
    BY <1>2, <1>3, DistinctLines DEF Headed
  <2>. DEFINE last == IF line = Torn THEN Torn ELSE Garbled
              new == [lines EXCEPT ![Len(lines)] = last]
  <2>2. last # Header /\ last \in T
    BY DistinctLines
  <2>3. Len(new) = Len(lines)
    BY <1>2, <2>2
  <2>4. ASSUME NEW i \in 1..Len(lines) PROVE new[i] = Header <=> i = 1
    <3>1. new[i] = IF i = Len(lines) THEN last ELSE lines[i]
      BY <1>2
    <3>2. lines[i] = Header <=> i = 1
      BY DEF Headed
    <3>. QED
      BY <2>1, <2>2, <3>1, <3>2
  <2>. QED
    BY <1>2, <1>3, <2>3, <2>4 DEF with_line, Headed
<1>4. CASE lines[Len(lines)] # Torn
  BY <1>2, <1>4 DEF with_line, Headed
<1>. QED
  BY <1>3, <1>4

LEMMA WithLineHeads ==
  with_line(<<>>, Header) # <<>> /\ Headed(with_line(<<>>, Header))
<1>1. with_line(<<>>, Header) = <<Header>>
  BY DEF with_line
<1>. QED
  BY <1>1 DEF Headed
-----------------------------------------------------------------------------
(* What is known of a file: it is a sequence of lines, and it has lines     *)
(* only once it is there.                                                   *)
FileShape(path) ==
  /\ IsSequence(files[path])
  /\ files[path] # <<>> => path \in present

(* While nothing disturbed its creation a file has at most one creator, is  *)
(* empty for as long as it has one, and is not there until that one opens   *)
(* it.  Without a creator it has lines as soon as it is there, and whoever  *)
(* saves to it otherwise finds them.                                        *)
Undisturbed(path) ==
  /\ \A p \in Procs : (target[p] = path /\ at[p] \in {"open", "header"} /\ ~found[p]) =>
       /\ files[path] = <<>>
       /\ at[p] = "open" => path \notin present
       /\ \A q \in Procs :
            (target[q] = path /\ at[q] \in {"open", "header"} /\ ~found[q]) => q = p
  /\ path \in present =>
       \/ files[path] # <<>>
       \/ \E p \in Procs : target[p] = path /\ at[p] \in {"open", "header"} /\ ~found[p]
  /\ \A p \in Procs :
       (target[p] = path /\ (at[p] = "rows" \/ (at[p] = "open" /\ found[p])))
       => files[path] # <<>>
  /\ Headed(files[path])

Tables ==
  /\ files = [path \in Paths |-> files[path]]
  /\ at = [p \in Procs |-> at[p]]
  /\ target = [p \in Procs |-> target[p]] /\ found = [p \in Procs |-> found[p]]
  /\ \A p \in Procs : at[p] = "header" => ~found[p]
  /\ \A p \in Procs : at[p] \in {"header", "rows"} => target[p] \in present

Inductive ==
  /\ Tables
  /\ \A path \in Paths : FileShape(path)
  /\ \A path \in Paths : path \notin spoiled => Undisturbed(path)

LEMMA InitInductive == Init => Inductive
<1>. SUFFICES ASSUME Init PROVE Inductive
  OBVIOUS
<1>1. <<>> \in Seq({}) /\ Len(<<>>) = 0
  OBVIOUS
<1>2. IsSequence(<<>>)
  BY <1>1 DEF IsSequence
<1>3. Headed(<<>>)
  BY <1>1 DEF Headed
<1>. QED
  BY <1>2, <1>3 DEF Inductive, Tables, FileShape, Undisturbed, Init, StorageInit

(* A step of p that leaves the files alone and takes p into no save, or     *)
(* out of one: only the death of a creator after it opened its file         *)
(* disturbs anybody.                                                        *)
LEMMA ElsewherePreserves ==
  ASSUME Inductive, NEW p \in Procs, NEW place, place \notin Saving,
         at' = [at EXCEPT ![p] = place],
         target' = [target EXCEPT ![p] = target'[p]],
         found' = [found EXCEPT ![p] = found'[p]],
         UNCHANGED <<files, present>>,
         spoiled \subseteq spoiled',
         at[p] = "header" => target[p] \in spoiled'
  PROVE  Inductive'
<1>. USE DEF Inductive, Saving
<1>1. Tables'
  BY DEF Tables
<1>2. \A path \in Paths : FileShape(path)'
  BY DEF FileShape
<1>3. ASSUME NEW path \in Paths, path \notin spoiled' PROVE Undisturbed(path)'
  <2>1. Undisturbed(path) /\ Tables
    BY <1>3
  <2>2. \A q \in Procs : q # p => at'[q] = at[q] /\ target'[q] = target[q] /\ found'[q] = found[q]
    BY DEF Tables
  <2>3. at'[p] = place /\ (at[p] = "header" => target[p] # path)
    BY <1>3 DEF Tables
  <2>4. Headed(files[path])'
    BY <2>1 DEF Undisturbed, Headed
  <2>. QED
    BY <2>1, <2>2, <2>3, <2>4 DEF Undisturbed
<1>. QED
  BY <1>1, <1>2, <1>3

(* std::ifstream finds the file, or p becomes its creator.                  *)
LEMMA CheckPreserves ==
  ASSUME Inductive, NEW p \in Procs, save_check(p)
  PROVE  Inductive'
<1>. USE DEF Inductive, Saving
<1>1. Tables'
  BY DEF Tables, save_check, goto
<1>2. \A path \in Paths : FileShape(path)'
  BY DEF FileShape, save_check
<1>3. ASSUME NEW path \in Paths, path \notin spoiled' PROVE Undisturbed(path)'
  <2>1. Undisturbed(path) /\ Tables /\ FileShape(path)
    BY <1>3 DEF save_check
  <2>2. \A q \in Procs : q # p => at'[q] = at[q] /\ found'[q] = found[q]
    BY DEF Tables, save_check, goto
  <2>3. at[p] = "check" /\ at'[p] = "open" /\ (found'[p] <=> target[p] \in present)
    BY DEF Tables, save_check, goto
  <2>4. target[p] = path => creators(path) = {}
    BY <1>3 DEF save_check
  <2>5. UNCHANGED <<files, present, target>>
    BY DEF save_check
  <2>6. Headed(files[path])'
    BY <2>1, <2>5 DEF Undisturbed, Headed
  <2>7. CASE target[p] # path
    BY <2>1, <2>2, <2>5, <2>6, <2>7 DEF Undisturbed
  <2>8. CASE target[p] = path /\ path \in present
    <3>1. files[path] # <<>>
      BY <2>1, <2>4, <2>8 DEF Undisturbed, creators
    <3>. QED
      BY <2>1, <2>2, <2>3, <2>5, <2>6, <2>8, <3>1 DEF Undisturbed
  <2>9. CASE target[p] = path /\ path \notin present
    <3>1. files[path] = <<>>
      BY <2>1, <2>9 DEF FileShape
    <3>2. \A q \in Procs :
            ~(target[q] = path /\ at[q] \in {"open", "header"} /\ ~found[q])
      BY <2>4, <2>9 DEF creators
    <3>. QED
      <4>1. ~found'[p] /\ path \notin present' /\ files'[path] = <<>>
        BY <2>3, <2>5, <2>9, <3>1
      <4>2. \A q \in Procs :
              (target'[q] = path /\ at'[q] \in {"open", "header"} /\ ~found'[q]) => q = p
        BY <2>2, <2>5, <3>2
      <4>3. \A q \in Procs :
              target'[q] = path => ~(at'[q] = "rows" \/ (at'[q] = "open" /\ found'[q]))
        BY <2>1, <2>2, <2>3, <2>5, <3>1, <4>1 DEF Undisturbed
      <4>. QED
        BY <2>6, <4>1, <4>2, <4>3 DEF Undisturbed
  <2>. QED
    BY <2>7, <2>8, <2>9
<1>. QED
  BY <1>1, <1>2, <1>3

(* The file is opened for appending, and is there from now on.              *)
LEMMA OpenPreserves ==
  ASSUME Inductive, NEW p \in Procs, save_open(p)
  PROVE  Inductive'
<1>. USE DEF Inductive, Saving
<1>1. Tables'
  BY DEF Tables, save_open, goto
<1>2. \A path \in Paths : FileShape(path)'
  BY DEF FileShape, save_open
<1>3. ASSUME NEW path \in Paths, path \notin spoiled' PROVE Undisturbed(path)'
  <2>1. Undisturbed(path) /\ Tables
    BY <1>3 DEF save_open
  <2>2. \A q \in Procs : q # p => at'[q] = at[q]
    BY DEF Tables, save_open, goto
  <2>3. at[p] = "open" /\ at'[p] = IF found[p] THEN "rows" ELSE "header"
    BY DEF Tables, save_open, goto
  <2>4. UNCHANGED <<files, target, found>> /\ present' = present \cup {target[p]}
    BY DEF save_open
  <2>5. Headed(files[path])'
    BY <2>1, <2>4 DEF Undisturbed, Headed
  <2>. QED
    BY <2>1, <2>2, <2>3, <2>4, <2>5 DEF Undisturbed
<1>. QED
  BY <1>1, <1>2, <1>3

(* The creator writes the header into the empty file.                       *)
LEMMA HeaderPreserves ==
  ASSUME Inductive, NEW p \in Procs, save_header(p)
  PROVE  Inductive'
<1>. USE DEF Inductive, Saving
<1>0. /\ at[p] = "header" /\ at' = [at EXCEPT ![p] = "rows"]
      /\ files' = [files EXCEPT ![target[p]] = with_line(@, Header)]
      /\ UNCHANGED <<present, target, found, spoiled>>
  BY DEF save_header, goto, write
<1>1. Tables'
  BY <1>0 DEF Tables
<1>2. ASSUME NEW path \in Paths PROVE FileShape(path)'
  BY <1>0, WithLineIsSequence DEF FileShape, Tables
<1>3. ASSUME NEW path \in Paths, path \notin spoiled' PROVE Undisturbed(path)'
  <2>1. Undisturbed(path) /\ Tables
    BY <1>0, <1>3
  <2>2. \A q \in Procs : q # p => at'[q] = at[q]
    BY <1>0 DEF Tables
  <2>3. at'[p] = "rows" /\ ~found[p]
    BY <1>0 DEF Tables
  <2>4. CASE target[p] = path
    <3>1. files[path] = <<>>
      BY <1>0, <2>1, <2>3, <2>4 DEF Undisturbed
    <3>2. files'[path] # <<>> /\ Headed(files'[path])
      BY <1>0, <2>1, <2>4, <3>1, WithLineHeads DEF Tables
    <3>. QED
      BY <1>0, <2>1, <2>2, <2>3, <2>4, <3>2 DEF Undisturbed
  <2>5. CASE target[p] # path
    <3>1. files'[path] = files[path]
      BY <1>0, <2>1, <2>5 DEF Tables
    <3>2. Headed(files'[path])
      BY <2>1, <3>1 DEF Undisturbed
    <3>. QED
      BY <1>0, <2>1, <2>2, <2>3, <2>5, <3>1, <3>2 DEF Undisturbed
  <2>. QED
    BY <2>4, <2>5
<1>. QED
  BY <1>1, <1>2, <1>3

(* A line other than a header is added by someone who stays at the rows.    *)
LEMMA LinePreserves ==
  ASSUME Inductive, NEW p \in Procs, at[p] = "rows", UNCHANGED at,
         NEW line, line # Header,
         files' = [files EXCEPT ![target[p]] = with_line(@, line)],
         UNCHANGED <<present, target, found, spoiled>>
  PROVE  Inductive'
<1>. USE DEF Inductive, Saving
<1>1. Tables'
  BY DEF Tables
<1>2. ASSUME NEW path \in Paths PROVE FileShape(path)'
  BY WithLineIsSequence DEF FileShape, Tables
<1>3. ASSUME NEW path \in Paths, path \notin spoiled' PROVE Undisturbed(path)'
  <2>1. Undisturbed(path) /\ Tables /\ FileShape(path)
    BY <1>3
  <2>2. CASE target[p] = path
    <3>1. files[path] # <<>>
      BY <2>1, <2>2 DEF Undisturbed
    <3>2. files'[path] = with_line(files[path], line)
      BY <2>1, <2>2 DEF Tables
    <3>3. files'[path] # <<>>
      BY <2>1, <3>2, WithLineIsSequence DEF FileShape
    <3>4. Headed(files'[path])
      BY <2>1, <3>1, <3>2, WithLineKeepsHead DEF FileShape, Undisturbed
    <3>. QED
      BY <2>1, <3>1, <3>3, <3>4 DEF Undisturbed
  <2>3. CASE target[p] # path
    <3>1. files'[path] = files[path]
      BY <2>1, <2>3 DEF Tables
    <3>2. Headed(files'[path])
      BY <2>1, <3>1 DEF Undisturbed
    <3>. QED
      BY <2>1, <3>1, <3>2 DEF Undisturbed
  <2>. QED
    BY <2>2, <2>3
<1>. QED
  BY <1>1, <1>2, <1>3

LEMMA RowPreserves ==
  ASSUME Inductive, NEW p \in Procs, save_row(p)
  PROVE  Inductive'
<1>1. Row(Head(unsaved[p])) # Header
  BY DistinctLines
<1>. QED
  BY <1>1, LinePreserves DEF save_row, write

(* A write that fails damages the header of a file being created, or is a   *)
(* line that has no end.                                                    *)
LEMMA FailurePreserves ==
  ASSUME Inductive, NEW p \in Procs, write_fails(p)
  PROVE  Inductive'
<1>0. /\ at' = [at EXCEPT ![p] = "rows"]
      /\ UNCHANGED files \/ files' = [files EXCEPT ![target[p]] = with_line(@, Torn)]
      /\ UNCHANGED <<present, target, found>>
  BY DEF write_fails, goto, write
<1>1. CASE at[p] = "header"
  <2>1. spoiled' = spoiled \cup {target[p]}
    BY <1>1 DEF write_fails
  <2>2. Tables'
    BY <1>0, <1>1 DEF Inductive, Tables
  <2>3. ASSUME NEW path \in Paths PROVE FileShape(path)'
    BY <1>0, <1>1, WithLineIsSequence DEF Inductive, FileShape, Tables
  <2>4. ASSUME NEW path \in Paths, path \notin spoiled' PROVE Undisturbed(path)'
    <3>1. Undisturbed(path) /\ Tables /\ target[p] # path
      BY <2>1, <2>4 DEF Inductive
    <3>2. files'[path] = files[path]
      BY <1>0, <3>1 DEF Tables
    <3>3. Headed(files'[path])
      BY <3>1, <3>2 DEF Undisturbed
    <3>4. \A q \in Procs : q # p => at'[q] = at[q]
      BY <1>0, <3>1 DEF Tables
    <3>. QED
      BY <1>0, <3>1, <3>2, <3>3, <3>4 DEF Undisturbed
  <2>. QED
    BY <2>2, <2>3, <2>4 DEF Inductive
<1>2. CASE at[p] # "header"
  <2>1. at[p] = "rows" /\ UNCHANGED <<at, spoiled>>
    BY <1>0, <1>2 DEF write_fails, Inductive, Tables
  <2>2. CASE files' = [files EXCEPT ![target[p]] = with_line(@, Torn)]
    BY <1>0, <2>1, <2>2, LinePreserves, DistinctLines
  <2>3. CASE UNCHANGED files
    BY <1>0, <2>1, <2>3 DEF Inductive, Tables, FileShape, Undisturbed, Headed
  <2>. QED
    BY <1>0, <2>2, <2>3
<1>. QED
  BY <1>1, <1>2

(* The end of a process, where the death of a creator is on record.         *)
LEMMA LeavePreserves ==
  ASSUME Inductive, NEW p \in Procs, leave(p)
  PROVE  Inductive'
<1>1. /\ at' = [at EXCEPT ![p] = "idle"] /\ "idle" \notin Saving
      /\ target' = [target EXCEPT ![p] = NoPath]
      /\ found' = [found EXCEPT ![p] = FALSE]
      /\ UNCHANGED <<files, present>>
      /\ spoiled' = IF at[p] = "header" THEN spoiled \cup {target[p]} ELSE spoiled
  BY DEF leave, goto, Saving
<1>2. /\ target' = [target EXCEPT ![p] = target'[p]]
      /\ found' = [found EXCEPT ![p] = found'[p]]
  BY <1>1 DEF Inductive, Tables
<1>3. spoiled \subseteq spoiled' /\ (at[p] = "header" => target[p] \in spoiled')
  BY <1>1
<1>. QED
  BY <1>1, <1>2, <1>3, ElsewherePreserves

LEMMA ConstructPreserves ==
  ASSUME Inductive, NEW p \in Procs, at[p] = "result", NEW path, NEW bars,
         construct_storage(p, path, bars)
  PROVE  Inductive'
<1>1. /\ at' = [at EXCEPT ![p] = "check"] /\ "check" \notin Saving
      /\ target' = [target EXCEPT ![p] = path]
      /\ UNCHANGED <<files, present, found, spoiled>>
  BY DEF construct_storage, goto, Saving
<1>2. /\ target' = [target EXCEPT ![p] = target'[p]]
      /\ found' = [found EXCEPT ![p] = found'[p]]
  BY <1>1 DEF Inductive, Tables
<1>. QED
  BY <1>1, <1>2, ElsewherePreserves

(* What does not touch the storage at all.                                  *)
LEMMA OutsidePreserves ==
  ASSUME Inductive, NEW p \in Procs, NEW place, place \notin Saving,
         at' = [at EXCEPT ![p] = place], at[p] # "header",
         UNCHANGED <<files, present, target, found, spoiled>>
  PROVE  Inductive'
<1>1. /\ target' = [target EXCEPT ![p] = target'[p]]
      /\ found' = [found EXCEPT ![p] = found'[p]]
  BY DEF Inductive, Tables
<1>. QED
  BY <1>1, ElsewherePreserves

LEMMA StorePreserves ==
  ASSUME Inductive, NEW p \in Procs, save_ohlcv(p)
  PROVE  Inductive'
<1>1. CASE save_returns_false(p)
  BY <1>1, OutsidePreserves DEF save_returns_false, goto, Saving
<1>2. CASE save_returns_true(p)
  BY <1>2, OutsidePreserves DEF save_returns_true, goto, Saving
<1>. QED
  BY <1>1, <1>2, CheckPreserves, OpenPreserves, HeaderPreserves, RowPreserves
  DEF save_ohlcv

LEMMA StepPreserves ==
  ASSUME Inductive, NEW p \in Procs, step(p)
  PROVE  Inductive'
<1>. USE DEF goto, Saving, outside_storage, finish_request
<1>1. CASE load_config(p)
  BY <1>1, OutsidePreserves DEF load_config
<1>2. CASE load_config_fails(p)
  <2>1. PICK place \in {"request", "exit"} : at' = [at EXCEPT ![p] = place]
    BY <1>2 DEF load_config_fails
  <2>. QED
    BY <1>2, <2>1, OutsidePreserves DEF load_config_fails
<1>3. CASE send_request(p)
  BY <1>3, OutsidePreserves DEF send_request
<1>4. CASE refuse_url(p)
  BY <1>4, OutsidePreserves DEF refuse_url
<1>5. CASE request_times_out(p)
  BY <1>5, OutsidePreserves DEF request_times_out
<1>6. CASE parse(p)
  BY <1>6, OutsidePreserves DEF parse
<1>7. CASE give_up(p)
  BY <1>7, OutsidePreserves DEF give_up
<1>8. CASE ask_for_book(p)
  BY <1>8, OutsidePreserves DEF ask_for_book
<1>9. CASE save_collected(p)
  BY <1>9, ConstructPreserves DEF save_collected
<1>10. CASE save_cleaned(p)
  BY <1>10, ConstructPreserves DEF save_cleaned
<1>11. CASE save(p)
  BY <1>11, StorePreserves DEF save
<1>12. CASE exit(p)
  BY <1>12, LeavePreserves DEF exit
<1>. QED
  BY <1>1, <1>2, <1>3, <1>4, <1>5, <1>6, <1>7, <1>8, <1>9, <1>10, <1>11, <1>12 DEF step

LEMMA NextPreserves == Inductive /\ [Next]_vars => Inductive'
<1>. SUFFICES ASSUME Inductive, [Next]_vars PROVE Inductive'
  OBVIOUS
<1>1. ASSUME NEW p \in Procs, start(p) PROVE Inductive'
  BY <1>1, OutsidePreserves DEF start, goto, Saving
<1>2. ASSUME NEW p \in Procs, exchange_answers(p) PROVE Inductive'
  BY <1>2, OutsidePreserves DEF exchange_answers, goto, Saving, outside_storage
<1>3. ASSUME NEW p \in Procs, connection_breaks(p) PROVE Inductive'
  BY <1>3, OutsidePreserves
  DEF connection_breaks, finish_request, goto, Saving, outside_storage
<1>4. ASSUME NEW p \in Procs, disk_full(p) PROVE Inductive'
  BY <1>4, FailurePreserves DEF disk_full
<1>5. ASSUME NEW p \in Procs, crash(p) PROVE Inductive'
  BY <1>5, LeavePreserves DEF crash
<1>6. CASE UNCHANGED vars
  BY <1>6 DEF vars, storage_vars, Inductive, Tables, FileShape, Undisturbed, Headed
<1>. QED
  BY <1>1, <1>2, <1>3, <1>4, <1>5, <1>6, StepPreserves DEF Next

(* Whoever saves to a file, in whatever order the processes run, crash or   *)
(* run out of disk: a file whose creation was not disturbed has its header  *)
(* at the top and nowhere else.                                             *)
THEOREM HeaderStaysOnTop == Spec => []HeaderOnTop
<1>1. Inductive => HeaderOnTop
  BY DEF Inductive, Undisturbed, Headed, HeaderOnTop
<1>. QED
  BY InitInductive, NextPreserves, <1>1, PTL DEF Spec
-----------------------------------------------------------------------------
(* Where the files go.                                                      *)

Right(dir) == dir # value(config_file, "data_dir") => config_file.ill_typed \in 1..3

Collects(p) == program[p] \in {"collect", "clean"}

(* A collecting program that is past its configuration has a directory that *)
(* is right, and hands it on to the path of its save and to the files.      *)
Placed ==
  /\ config_file.ill_typed \in Nat
  /\ at = [p \in Procs |-> at[p]]
  /\ target = [p \in Procs |-> target[p]] /\ config = [p \in Procs |-> config[p]]
  /\ \A p \in Procs : (at[p] \in {"request", "waiting", "parse", "result"} /\ Collects(p)) =>
       Right(config[p].data_dir)
  /\ \A p \in Procs : at[p] \in {"check", "open", "header", "rows"} => Right(target[p].dir)
  /\ \A path \in present : Right(path.dir)

(* The extraction reads data_dir unless one of the first three fields is    *)
(* ill typed.                                                               *)
LEMMA DirectoryIsRead ==
  ASSUME NEW file, file.ill_typed \in Nat, file.ill_typed \notin 1..3,
         NEW c \in get_binance_config(file)
  PROVE  c.data_dir = value(file, "data_dir")
<1>1. 3 \in DOMAIN extraction_order /\ extraction_order[3] = "data_dir"
  BY DEF extraction_order
<1>2. file.ill_typed = 0 \/ 3 < file.ill_typed
  OBVIOUS
<1>3. "data_dir" \in extracted(file)
  BY <1>1, <1>2 DEF extracted
<1>4. \A port, enabled, timeout :
        filled_from(file, port, enabled, timeout).data_dir = value(file, "data_dir")
  BY <1>3 DEF filled_from, read
<1>5. PICK port \in Uninitialised, enabled \in BOOLEAN, timeout \in Uninitialised :
        c = filled_from(file, port, enabled, timeout)
  BY DEF get_binance_config
<1>. QED
  BY <1>4, <1>5

LEMMA InitPlaced == Init => Placed
BY SetupAssumption DEF Init, StorageInit, Placed

(* The places of a program between its configuration and its save, and in   *)
(* its save.                                                                *)
Fetching == {"request", "waiting", "parse", "result"}
Storing  == {"check", "open", "header", "rows"}

(* A process that moves on within one of the two, or leaves both.           *)
LEMMA MovePlaced ==
  ASSUME Placed, NEW p \in Procs, NEW place, at' = [at EXCEPT ![p] = place],
         place \in Fetching => at[p] \in Fetching,
         place \in Storing  => at[p] \in Storing,
         UNCHANGED <<present, config_file, program, target, config>>
  PROVE  Placed'
BY DEF Placed, Right, Collects, Fetching, Storing

LEMMA ForgetPlaced ==
  ASSUME Placed, NEW p \in Procs, leave(p), forget(p)
  PROVE  Placed'
BY DEF Placed, Right, Collects, leave, forget, goto

LEMMA LoadPlaced ==
  ASSUME Placed, NEW p \in Procs, load_config(p) \/ load_config_fails(p)
  PROVE  Placed'
<1>1. CASE load_config(p)
  <2>1. PICK c \in get_binance_config(config_file) : config' = [config EXCEPT ![p] = c]
    BY <1>1 DEF load_config
  <2>2. Right(c.data_dir)
    BY DirectoryIsRead DEF Placed, Right
  <2>3. /\ at' = [at EXCEPT ![p] = "request"]
        /\ UNCHANGED <<present, config_file, program, target>>
    BY <1>1 DEF load_config, goto, outside_storage
  <2>. QED
    BY <2>1, <2>2, <2>3 DEF Placed, Right, Collects
<1>2. CASE load_config_fails(p)
  <2>1. PICK place \in {"request", "exit"} : at' = [at EXCEPT ![p] = place]
    BY <1>2 DEF load_config_fails, goto
  <2>2. Collects(p) => at' = [at EXCEPT ![p] = "exit"]
    BY <1>2 DEF load_config_fails, goto, Collects
  <2>3. /\ config' = [config EXCEPT ![p] = DefaultConfig]
        /\ UNCHANGED <<present, config_file, program, target>>
    BY <1>2 DEF load_config_fails, outside_storage
  <2>4. Collects(p) => place = "exit"
    BY <2>1, <2>2 DEF Placed
  <2>. QED
    BY <2>1, <2>3, <2>4 DEF Placed, Right, Collects
<1>. QED
  BY <1>1, <1>2

LEMMA SavePlaced ==
  ASSUME Placed, NEW p \in Procs, save_collected(p) \/ save_cleaned(p)
  PROVE  Placed'
<1>1. at[p] = "result" /\ Collects(p)
  BY DEF save_collected, save_cleaned, Collects
<1>2. PICK path, bars : construct_storage(p, path, bars) /\ path.dir = config[p].data_dir
  BY DEF save_collected, save_cleaned, path_of
<1>3. /\ target' = [target EXCEPT ![p] = path] /\ at' = [at EXCEPT ![p] = "check"]
      /\ UNCHANGED present
  BY <1>2 DEF construct_storage, goto
<1>4. UNCHANGED <<config_file, program, config>>
  BY DEF save_collected, save_cleaned, collector_vars
<1>5. Right(path.dir)
  BY <1>1, <1>2 DEF Placed
<1>. QED
  BY <1>3, <1>4, <1>5 DEF Placed, Right, Collects

LEMMA StorePlaced ==
  ASSUME Placed, NEW p \in Procs, save_ohlcv(p) \/ write_fails(p), UNCHANGED collector_vars
  PROVE  Placed'
<1>. USE DEF Fetching, Storing, goto, collector_vars
<1>1. CASE save_check(p)
  BY <1>1, MovePlaced DEF save_check
<1>2. CASE save_open(p)
  <2>1. PICK place \in {"rows", "header"} : at' = [at EXCEPT ![p] = place]
    BY <1>2 DEF save_open
  <2>2. at[p] = "open" /\ present' = present \cup {target[p]}
        /\ UNCHANGED <<config_file, program, config, target>>
    BY <1>2 DEF save_open
  <2>. QED
    BY <2>1, <2>2 DEF Placed, Right, Collects
<1>3. CASE save_returns_false(p)
  BY <1>3, MovePlaced DEF save_returns_false
<1>4. CASE save_header(p)
  BY <1>4, MovePlaced DEF save_header
<1>5. CASE save_row(p)
  BY <1>5 DEF save_row, Placed, Right, Collects
<1>6. CASE save_returns_true(p)
  BY <1>6, MovePlaced DEF save_returns_true
<1>7. CASE write_fails(p)
  BY <1>7, MovePlaced DEF write_fails
<1>. QED
  BY <1>1, <1>2, <1>3, <1>4, <1>5, <1>6, <1>7 DEF save_ohlcv

LEMMA NextPlaced == Placed /\ [Next]_vars => Placed'
<1>. SUFFICES ASSUME Placed, [Next]_vars PROVE Placed'
  OBVIOUS
<1>1. CASE UNCHANGED vars
  BY <1>1 DEF vars, storage_vars, collector_vars, Placed, Right, Collects
<1>2. ASSUME NEW p \in Procs, start(p) PROVE Placed'
  BY <1>2, MovePlaced DEF start, goto, Fetching, Storing
<1>3. ASSUME NEW p \in Procs,
             \/ send_request(p) \/ refuse_url(p) \/ request_times_out(p) \/ parse(p)
             \/ exchange_answers(p) \/ connection_breaks(p) \/ ask_for_book(p) \/ give_up(p)
      PROVE  Placed'
  <2>1. PICK place \in Fetching \cup {"exit"} : at' = [at EXCEPT ![p] = place]
    BY <1>3 DEF send_request, refuse_url, request_times_out, parse, exchange_answers,
                connection_breaks, ask_for_book, give_up, finish_request, goto, Fetching
  <2>2. at[p] \in Fetching /\ UNCHANGED <<present, config_file, program, target, config>>
    BY <1>3 DEF send_request, refuse_url, request_times_out, parse, exchange_answers,
                connection_breaks, ask_for_book, give_up, outside_storage, Fetching
  <2>3. place \notin Storing
    BY DEF Fetching, Storing
  <2>. QED
    BY <2>1, <2>2, <2>3, MovePlaced
<1>4. ASSUME NEW p \in Procs, disk_full(p) \/ save(p) PROVE Placed'
  BY <1>4, StorePlaced DEF disk_full, save
<1>5. ASSUME NEW p \in Procs, crash(p) \/ exit(p) PROVE Placed'
  BY <1>5, ForgetPlaced DEF crash, exit
<1>. QED
  BY <1>1, <1>2, <1>3, <1>4, <1>5, LoadPlaced, SavePlaced DEF Next, step

(* A program that could read where its data belong stores them nowhere      *)
(* else, whatever else is wrong with its configuration.                     *)
THEOREM StoresWhereConfigured == Spec => []StoredWhereConfigured
<1>1. Placed => StoredWhereConfigured
  BY DEF Placed, Right, StoredWhereConfigured
<1>. QED
  BY InitPlaced, NextPlaced, <1>1, PTL DEF Spec
-----------------------------------------------------------------------------
(* What becomes data.                                                       *)

(* A reply as AnswersAssumption has it, or none yet.                        *)
Sound(r) ==
  /\ r.body.kind \in {"array", "ticker", "book"} => r.status = 200
  /\ r.body.kind = "array" => r.body.items \in Seq(ExchangeCandles \cup {Malformed})

(* The result of a query was made of the reply, and not of an error, and is *)
(* of the kind asked for.                                                   *)
MadeOf(asked_for, r, res) ==
  CASE asked_for = "klines" ->
         res.data # <<>> =>
           r.status = 200 /\ r.body.kind = "array" /\ Len(res.data) = Len(r.body.items)
    [] asked_for = "ticker" -> r.status = 200 /\ res.data[1].kind = "ticker"
    [] asked_for = "book" -> /\ clean_orderbook(res.data[1]) => r.status = 200
                             /\ DOMAIN res.data[1] = BookFields

Decided(p) == at[p] = "result" /\ result[p].success

Answered ==
  /\ at = [p \in Procs |-> at[p]] /\ query = [p \in Procs |-> query[p]]
  /\ reply = [p \in Procs |-> reply[p]] /\ result = [p \in Procs |-> result[p]]
  /\ \A p \in Procs : program[p] \in {"none", "collect", "clean", "strategy", "quote"}
  /\ \A p \in Procs : at[p] \in Fetching \cup {"load"} => <<program[p], query[p]>> \in Asked
  /\ \A p \in Procs : Sound(reply[p])
  /\ \A p \in Procs : Decided(p) => MadeOf(query[p], reply[p], result[p])

LEMMA KlinesAreAnswered ==
  ASSUME NEW r, Sound(r), NEW symbol, NEW tf, NEW res, res = get_klines(r, symbol, tf),
         res.success, res.data # <<>>
  PROVE  r.status = 200 /\ r.body.kind = "array" /\ Len(res.data) = Len(r.body.items)
<1>. DEFINE items == items_of(r.body)
<1>1. ~ \E i \in DOMAIN items : items[i] = Malformed
  BY DEF get_klines, Err
<1>2. res.data = [i \in DOMAIN items |-> bar_of(items[i], symbol, tf)]
  <2>. HIDE DEF items
  <2>. QED
    BY <1>1 DEF get_klines, Ok, items
<1>3. CASE r.body.kind = "array"
  <2>1. items = r.body.items /\ items \in Seq(ExchangeCandles \cup {Malformed})
    BY <1>3 DEF items_of, Sound
  <2>2. DOMAIN items = 1..Len(items) /\ Len(items) \in Nat
    BY <2>1
  <2>3. Len(res.data) = Len(items)
    BY <1>2, <2>2
  <2>. QED
    BY <1>3, <2>1, <2>3 DEF Sound
<1>4. CASE r.body.kind = "empty"
  <2>1. items = <<>>
    BY <1>4 DEF items_of
  <2>2. DOMAIN items = 1..0
    BY <2>1
  <2>3. res.data = <<>>
    BY <1>2, <2>2
  <2>. QED
    BY <2>3
<1>5. CASE r.body.kind \notin {"array", "empty"}
  <2>1. items = <<Malformed>>
    BY <1>5 DEF items_of
  <2>. QED
    BY <1>1, <2>1
<1>. QED
  BY <1>3, <1>4, <1>5

LEMMA TickerIsAnswered ==
  ASSUME NEW r, Sound(r), get_ticker(r).success
  PROVE  r.status = 200 /\ get_ticker(r).data[1].kind = "ticker"
BY DEF get_ticker, Sound, Ok, Err

LEMMA BookHasFields ==
  ASSUME NEW r, get_orderbook(r).success
  PROVE  DOMAIN get_orderbook(r).data[1] = BookFields
<1>1. get_orderbook(r).data[1] = book_of(r.body)
  BY DEF get_orderbook, Ok, Err
<1>2. DOMAIN book_of(r.body) = {"timestamp", "sequence", "bids", "asks"}
  BY DEF book_of
<1>. QED
  BY <1>1, <1>2 DEF BookFields

LEMMA BookIsAnswered ==
  ASSUME NEW r, Sound(r), get_orderbook(r).success, clean_orderbook(get_orderbook(r).data[1])
  PROVE  r.status = 200
<1>1. get_orderbook(r).data[1] = book_of(r.body)
  BY DEF get_orderbook, Ok, Err
<1>2. r.body.kind = "book"
  BY <1>1 DEF book_of, clean_orderbook
<1>. QED
  BY <1>2 DEF Sound

LEMMA ParseAnswered ==
  ASSUME Answered, NEW p \in Procs, parse(p), result'[p].success
  PROVE  MadeOf(query[p], reply[p], result'[p])
<1>. DEFINE made == CASE query[p] = "klines" -> get_klines(reply[p], "BTCUSDT", interval[p])
                      [] query[p] = "ticker" -> get_ticker(reply[p])
                      [] query[p] = "book"   -> get_orderbook(reply[p])
<1>1. http_get(reply[p]).data = reply[p]
  BY DEF http_get, Ok
<1>2. result' = [result EXCEPT ![p] = made]
  BY <1>1 DEF parse, finish_request
<1>3. result'[p] = made
  BY <1>2 DEF Answered
<1>4. Sound(reply[p]) /\ query[p] \in {"klines", "ticker", "book"}
  BY DEF Answered, parse, Fetching, Asked
<1>5. CASE query[p] = "klines"
  BY <1>3, <1>4, <1>5, KlinesAreAnswered DEF MadeOf
<1>6. CASE query[p] = "ticker"
  BY <1>3, <1>4, <1>6, TickerIsAnswered DEF MadeOf
<1>7. CASE query[p] = "book"
  BY <1>3, <1>4, <1>7, BookIsAnswered, BookHasFields DEF MadeOf
<1>. QED
  BY <1>4, <1>5, <1>6, <1>7

(* A step of p that decides nothing from a reply.                           *)
LEMMA MoveAnswered ==
  ASSUME Answered, NEW p \in Procs, NEW place, at' = [at EXCEPT ![p] = place],
         query' = [query EXCEPT ![p] = query'[p]],
         reply' = [reply EXCEPT ![p] = reply'[p]],
         result' = [result EXCEPT ![p] = result'[p]],
         place \in Fetching \cup {"load"} => <<program[p], query'[p]>> \in Asked,
         Sound(reply'[p]),
         place = "result" /\ result'[p].success => MadeOf(query'[p], reply'[p], result'[p]),
         UNCHANGED program
  PROVE  Answered'
<1>1. ASSUME NEW q \in Procs, q # p
      PROVE  /\ at'[q] = at[q] /\ query'[q] = query[q]
             /\ reply'[q] = reply[q] /\ result'[q] = result[q]
  BY <1>1 DEF Answered
<1>2. at'[p] = place
  BY DEF Answered
<1>3. /\ at' = [q \in Procs |-> at'[q]] /\ query' = [q \in Procs |-> query'[q]]
      /\ reply' = [q \in Procs |-> reply'[q]] /\ result' = [q \in Procs |-> result'[q]]
  BY DEF Answered
<1>4. ASSUME NEW q \in Procs, at'[q] \in Fetching \cup {"load"}
      PROVE  <<program'[q], query'[q]>> \in Asked
  BY <1>1, <1>2, <1>4 DEF Answered
<1>5. ASSUME NEW q \in Procs PROVE Sound(reply'[q])
  BY <1>1 DEF Answered
<1>6. ASSUME NEW q \in Procs, at'[q] = "result", result'[q].success
      PROVE  MadeOf(query'[q], reply'[q], result'[q])
  BY <1>1, <1>2, <1>6 DEF Answered, Decided
<1>. QED
  BY <1>3, <1>4, <1>5, <1>6 DEF Answered, Decided

(* A step of p that keeps its query and its reply and has no data.          *)
LEMMA WaitAnswered ==
  ASSUME Answered, NEW p \in Procs, NEW place, at' = [at EXCEPT ![p] = place],
         place \in Fetching => at[p] \in Fetching \cup {"load"}, place # "load",
         place = "result" => ~result'[p].success,
         result' = [result EXCEPT ![p] = result'[p]],
         UNCHANGED <<query, reply, program>>
  PROVE  Answered'
<1>1. /\ query' = [query EXCEPT ![p] = query'[p]]
      /\ reply' = [reply EXCEPT ![p] = reply'[p]]
      /\ Sound(reply'[p])
      /\ place \in Fetching \cup {"load"} => <<program[p], query'[p]>> \in Asked
  BY DEF Answered
<1>. QED
  BY <1>1, MoveAnswered

LEMMA InitAnswered == Init => Answered
<1>. SUFFICES ASSUME Init PROVE Answered
  OBVIOUS
<1>1. PICK setup \in Setups : program = setup.program
  BY DEF Init
<1>2. \A p \in Procs : program[p] \in {"none", "collect", "clean", "strategy", "quote"}
  BY <1>1, SetupAssumption
<1>3. Sound(NoReply)
  BY DEF Sound, NoReply
<1>4. /\ at = [p \in Procs |-> "idle"] /\ query = [p \in Procs |-> ""]
      /\ reply = [p \in Procs |-> NoReply] /\ result = [p \in Procs |-> NoResult]
  BY DEF Init
<1>. QED
  BY <1>2, <1>3, <1>4 DEF Answered, Decided, Fetching

LEMMA ErrorHasNoData == \A code : ~Err(code).success
BY DEF Err

LEMMA NextAnswered == Answered /\ [Next]_vars => Answered'
<1>. SUFFICES ASSUME Answered, [Next]_vars PROVE Answered'
  OBVIOUS
<1>. USE DEF goto
<1>1. CASE UNCHANGED vars
  BY <1>1 DEF vars, collector_vars, storage_vars, Answered, Decided
<1>2. ASSUME NEW p \in Procs, start(p) PROVE Answered'
  <2>1. /\ at' = [at EXCEPT ![p] = "load"] /\ query' = [query EXCEPT ![p] = first_query(p)]
        /\ UNCHANGED <<reply, result, program>> /\ program[p] # "none"
    BY <1>2 DEF start
  <2>2. query'[p] = first_query(p)
    BY <2>1 DEF Answered
  <2>3. <<program[p], first_query(p)>> \in Asked
    BY <2>1 DEF Answered, first_query, Asked
  <2>4. /\ reply' = [reply EXCEPT ![p] = reply'[p]]
        /\ result' = [result EXCEPT ![p] = result'[p]] /\ Sound(reply'[p])
    BY <2>1 DEF Answered
  <2>. QED
    BY <2>1, <2>2, <2>3, <2>4, MoveAnswered
<1>3. ASSUME NEW p \in Procs, exchange_answers(p) PROVE Answered'
  <2>1. PICK answer \in Answers[<<program[p], query[p]>>] : reply' = [reply EXCEPT ![p] = answer]
    BY <1>3 DEF exchange_answers
  <2>2. /\ at[p] = "waiting" /\ at' = [at EXCEPT ![p] = "parse"]
        /\ UNCHANGED <<query, result, program>>
    BY <1>3 DEF exchange_answers, outside_storage
  <2>3. <<program[p], query[p]>> \in Asked
    BY <2>2 DEF Answered, Fetching
  <2>4. Sound(answer)
    BY <2>1, <2>3, AnswersAssumption DEF Sound
  <2>5. /\ query' = [query EXCEPT ![p] = query'[p]]
        /\ result' = [result EXCEPT ![p] = result'[p]] /\ reply'[p] = answer
    BY <2>1, <2>2 DEF Answered
  <2>. QED
    BY <2>1, <2>2, <2>3, <2>4, <2>5, MoveAnswered
<1>4. ASSUME NEW p \in Procs, parse(p) PROVE Answered'
  <2>1. PICK r : result' = [result EXCEPT ![p] = r]
    BY <1>4 DEF parse, finish_request
  <2>2. /\ at[p] = "parse" /\ at' = [at EXCEPT ![p] = "result"]
        /\ UNCHANGED <<query, reply, program>>
    BY <1>4 DEF parse, finish_request, outside_storage
  <2>3. /\ query' = [query EXCEPT ![p] = query'[p]]
        /\ reply' = [reply EXCEPT ![p] = reply'[p]]
        /\ result' = [result EXCEPT ![p] = result'[p]]
        /\ Sound(reply'[p]) /\ <<program[p], query'[p]>> \in Asked
    BY <2>1, <2>2 DEF Answered, Fetching
  <2>4. result'[p].success => MadeOf(query'[p], reply'[p], result'[p])
    BY <1>4, <2>2, ParseAnswered
  <2>. QED
    BY <2>2, <2>3, <2>4, MoveAnswered
<1>5. ASSUME NEW p \in Procs, ask_for_book(p) PROVE Answered'
  <2>1. /\ at[p] = "result" /\ query[p] = "ticker" /\ at' = [at EXCEPT ![p] = "request"]
        /\ query' = [query EXCEPT ![p] = "book"] /\ reply' = [reply EXCEPT ![p] = NoReply]
        /\ result' = [result EXCEPT ![p] = NoResult] /\ UNCHANGED program
    BY <1>5 DEF ask_for_book, outside_storage
  <2>2. query'[p] = "book" /\ reply'[p] = NoReply /\ result'[p] = NoResult
    BY <2>1 DEF Answered
  <2>3. <<program[p], "ticker">> \in Asked
    BY <2>1 DEF Answered, Fetching
  <2>4. program[p] = "quote"
    BY <2>3 DEF Asked
  <2>5. <<program[p], "book">> \in Asked /\ Sound(NoReply)
    BY <2>4 DEF Asked, Sound, NoReply
  <2>. QED
    BY <2>1, <2>2, <2>5, MoveAnswered
<1>6. ASSUME NEW p \in Procs, refuse_url(p) \/ connection_breaks(p) \/ request_times_out(p)
      PROVE  Answered'
  <2>1. PICK code : result' = [result EXCEPT ![p] = Err(code)]
    BY <1>6 DEF refuse_url, connection_breaks, request_times_out, finish_request
  <2>2. /\ at[p] \in Fetching /\ at' = [at EXCEPT ![p] = "result"]
        /\ UNCHANGED <<query, reply, program>>
    BY <1>6 DEF refuse_url, connection_breaks, request_times_out, finish_request,
                outside_storage, Fetching
  <2>3. result'[p] = Err(code) /\ result' = [result EXCEPT ![p] = result'[p]]
    BY <2>1 DEF Answered
  <2>. QED
    BY <2>2, <2>3, ErrorHasNoData, WaitAnswered
<1>7. ASSUME NEW p \in Procs,
             load_config(p) \/ load_config_fails(p) \/ send_request(p) \/ give_up(p)
      PROVE  Answered'
  <2>1. PICK place \in {"request", "waiting", "exit"} : at' = [at EXCEPT ![p] = place]
    BY <1>7 DEF load_config, load_config_fails, send_request, give_up
  <2>2. at[p] \in Fetching \cup {"load"} /\ UNCHANGED <<query, reply, result, program>>
    BY <1>7 DEF load_config, load_config_fails, send_request, give_up, outside_storage, Fetching
  <2>3. result' = [result EXCEPT ![p] = result'[p]]
    BY <2>2 DEF Answered
  <2>. QED
    BY <2>1, <2>2, <2>3, WaitAnswered
<1>8. ASSUME NEW p \in Procs,
             save_collected(p) \/ save_cleaned(p) \/ save(p) \/ disk_full(p)
      PROVE  Answered'
  <2>1. PICK place \in Storing \cup {"exit"} : at' = [at EXCEPT ![p] = place]
    BY <1>8 DEF save_collected, save_cleaned, save, disk_full, construct_storage, save_ohlcv,
                save_check, save_open, save_returns_false, save_header, save_row,
                save_returns_true, write_fails, Storing, Answered
  <2>2. UNCHANGED <<query, reply, result, program>>
    BY <1>8 DEF save_collected, save_cleaned, save, disk_full, collector_vars
  <2>3. result' = [result EXCEPT ![p] = result'[p]]
    BY <2>2 DEF Answered
  <2>4. place \notin Fetching /\ place # "load" /\ place # "result"
    BY DEF Storing, Fetching
  <2>. QED
    BY <2>1, <2>2, <2>3, <2>4, WaitAnswered
<1>9. ASSUME NEW p \in Procs, crash(p) \/ exit(p) PROVE Answered'
  <2>1. /\ at' = [at EXCEPT ![p] = "idle"] /\ query' = [query EXCEPT ![p] = ""]
        /\ reply' = [reply EXCEPT ![p] = NoReply]
        /\ result' = [result EXCEPT ![p] = NoResult] /\ UNCHANGED program
    BY <1>9 DEF crash, exit, leave, forget
  <2>2. query'[p] = "" /\ reply'[p] = NoReply /\ result'[p] = NoResult
    BY <2>1 DEF Answered
  <2>3. Sound(NoReply) /\ "idle" \notin Fetching \cup {"load"}
    BY DEF Sound, NoReply, Fetching
  <2>. QED
    BY <2>1, <2>2, <2>3, MoveAnswered
<1>. QED
  BY <1>1, <1>2, <1>3, <1>4, <1>5, <1>6, <1>7, <1>8, <1>9 DEF Next, step

(* No part of an answer and no error of the exchange is taken for data, if  *)
(* the exchange sends the answers asked for with status 200 only.           *)
THEOREM ErrorsAreNeverData == Spec => []ErrorsAreNotData
<1>1. Answered => ErrorsAreNotData
  <2>1. SUFFICES ASSUME Answered, NEW p \in Procs, at[p] = "result", result[p].success
                 PROVE  CASE query[p] = "klines" ->
                               result[p].data # <<>> =>
                                 /\ reply[p].status = 200 /\ reply[p].body.kind = "array"
                                 /\ Len(result[p].data) = Len(reply[p].body.items)
                          [] query[p] = "ticker" -> reply[p].status = 200
                          [] query[p] = "book" ->
                               clean_orderbook(result[p].data[1]) => reply[p].status = 200
    BY Zenon DEF ErrorsAreNotData
  <2>2. MadeOf(query[p], reply[p], result[p])
    BY <2>1 DEF Answered, Decided
  <2>3. query[p] \in {"klines", "ticker", "book"}
    BY <2>1 DEF Answered, Asked, Fetching
  <2>4. CASE query[p] = "klines"
    BY <2>2, <2>4 DEF MadeOf
  <2>5. CASE query[p] = "ticker"
    BY <2>2, <2>5 DEF MadeOf
  <2>6. CASE query[p] = "book"
    BY <2>2, <2>6 DEF MadeOf
  <2>. QED
    BY <2>3, <2>4, <2>5, <2>6
<1>. QED
  BY InitAnswered, NextAnswered, <1>1, PTL DEF Spec
-----------------------------------------------------------------------------
(* What the cleaner makes of a batch.                                       *)

ApplyNext(n, done) == IF done.keep THEN apply(Rules[n], done.memory, done.bar) ELSE done

First(memory, bar) == [keep |-> TRUE, bar |-> bar, memory |-> memory]

(* The sets in "once" only tell TLC when to evaluate.                       *)
ApplyOnce(n, d) == CHOOSE y \in {ApplyNext(n, v) : v \in {d}} : TRUE

LEMMA ApplyOnceIs == \A n, d : ApplyOnce(n, d) = ApplyNext(n, d)
<1> TAKE n, d
<1>1. {ApplyNext(n, v) : v \in {d}} = {ApplyNext(n, d)}
  BY Zenon
<1> QED
  BY <1>1 DEF ApplyOnce

LEMMA CleanNextIs ==
  ASSUME NEW before, NEW bar
  PROVE  clean_next(before, bar)
         = keep_cleaned(before.kept, clean_ohlcv(before.memory, bar))
<1> DEFINE F(b, done) == keep_cleaned(b.kept, done)
           C(b) == clean_ohlcv(b.memory, bar)
           G(b) == CHOOSE y \in {F(b, v) : v \in {C(b)}} : TRUE
<1>1. G(before) = F(before, C(before))
  <2>1. {F(before, v) : v \in {C(before)}} = {F(before, C(before))}
    BY Zenon
  <2> HIDE DEF F, C
  <2> QED
    BY <2>1
<1>2. (CHOOSE y \in {G(b) : b \in {before}} : TRUE) = G(before)
  <2> HIDE DEF G
  <2>1. {G(b) : b \in {before}} = {G(before)}
    BY Zenon
  <2> QED
    BY <2>1
<1> QED
  BY <1>1, <1>2, Zenon DEF clean_next, once

LEMMA InsertIs ==
  ASSUME NEW unique, NEW bar
  PROVE  insert_unseen(unique, bar)
         = IF seen_in(unique, bar) THEN unique ELSE Append(unique, bar)
<1> DEFINE F(u) == IF seen_in(u, bar) THEN u ELSE Append(u, bar)
<1>1. (CHOOSE y \in {F(v) : v \in {unique}} : TRUE) = F(unique)
  <2> HIDE DEF F
  <2>1. {F(v) : v \in {unique}} = {F(unique)}
    BY Zenon
  <2> QED
    BY <2>1
<1> QED
  BY <1>1, Zenon DEF insert_unseen, once

(* The four rules, one after the other.                                     *)
LEMMA CleanIs ==
  ASSUME NEW memory, NEW bar
  PROVE  clean_ohlcv(memory, bar) =
           ApplyNext(4, ApplyNext(3, ApplyNext(2, ApplyNext(1, First(memory, bar)))))
<1> DEFINE s0 == First(memory, bar)
           s1 == ApplyNext(1, s0)
           s2 == ApplyNext(2, s1)
           s3 == ApplyNext(3, s2)
           s4 == ApplyNext(4, s3)
           table == CHOOSE f : f = [n \in 0..4 |-> IF n = 0 THEN s0 ELSE ApplyOnce(n, f[n-1])]
           e == [n \in 0..4 |-> IF n = 0 THEN s0 ELSE IF n = 1 THEN s1
                                ELSE IF n = 2 THEN s2 ELSE IF n = 3 THEN s3 ELSE s4]
<1>1. Len(Rules) = 4
  BY DEF Rules
<1>2. clean_ohlcv(memory, bar) = table[4]
  BY <1>1, Zenon DEF clean_ohlcv, First, ApplyOnce, ApplyNext, once
<1>3. e = [n \in 0..4 |-> IF n = 0 THEN s0 ELSE ApplyOnce(n, e[n-1])]
  <2>1. /\ e[0] = s0 /\ e[1] = s1 /\ e[2] = s2 /\ e[3] = s3 /\ e[4] = s4
    <3> HIDE DEF s0, s1, s2, s3, s4
    <3> QED
      OBVIOUS
  <2>2. DOMAIN e = 0..4 /\ e = [n \in DOMAIN e |-> e[n]]
    <3> HIDE DEF s0, s1, s2, s3, s4
    <3> QED
      OBVIOUS
  <2>3. /\ e[1] = ApplyNext(1, e[0]) /\ e[2] = ApplyNext(2, e[1])
        /\ e[3] = ApplyNext(3, e[2]) /\ e[4] = ApplyNext(4, e[3])
    <3> HIDE DEF e
    <3> QED
      BY <2>1, Zenon
  <2> HIDE DEF e
  <2>4. ASSUME NEW n \in 0..4
        PROVE  e[n] = IF n = 0 THEN s0 ELSE ApplyNext(n, e[n-1])
    <3>1. n = 0 \/ n = 1 \/ n = 2 \/ n = 3 \/ n = 4
      OBVIOUS
    <3> HIDE DEF s0
    <3>2. CASE n = 0
      BY <2>1, <3>2
    <3>3. CASE n = 1
      BY <2>3, <3>3
    <3>4. CASE n = 2
      BY <2>3, <3>4
    <3>5. CASE n = 3
      BY <2>3, <3>5
    <3>6. CASE n = 4
      BY <2>3, <3>6
    <3> QED
      BY <3>1, <3>2, <3>3, <3>4, <3>5, <3>6
  <2>5. ASSUME NEW n \in 0..4
        PROVE  e[n] = IF n = 0 THEN s0 ELSE ApplyOnce(n, e[n-1])
    BY <2>4, ApplyOnceIs, Zenon
  <2> HIDE DEF s0
  <2> QED
    BY <2>2, <2>5, Zenon
<1> HIDE DEF e, s0
<1>4. table = [n \in 0..4 |-> IF n = 0 THEN s0 ELSE ApplyOnce(n, table[n-1])]
  BY <1>3, Zenon
<1> HIDE DEF table
<1>5. /\ table[0] = s0 /\ table[1] = ApplyNext(1, table[0])
      /\ table[2] = ApplyNext(2, table[1]) /\ table[3] = ApplyNext(3, table[2])
      /\ table[4] = ApplyNext(4, table[3])
  <2>1. \A n \in 0..4 : table[n] = IF n = 0 THEN s0 ELSE ApplyNext(n, table[n-1])
    BY <1>4, ApplyOnceIs, Zenon
  <2>2. /\ 0 \in 0..4 /\ 1 \in 0..4 /\ 2 \in 0..4 /\ 3 \in 0..4 /\ 4 \in 0..4
        /\ 1-1 = 0 /\ 2-1 = 1 /\ 3-1 = 2 /\ 4-1 = 3
    OBVIOUS
  <2>3. 1 # 0 /\ 2 # 0 /\ 3 # 0 /\ 4 # 0
    OBVIOUS
  <2> QED
    BY <2>1, <2>2, <2>3
<1> QED
  BY <1>2, <1>5, Zenon DEF s0

(* The bars of get_klines, and those the cleaner keeps.                     *)
Fresh == {bar \in Bars : bar.quality = "GOOD"}
Sane  == {bar \in Fresh : validate_ohlcv(bar)}

BarRecords ==
  [timestamp : Nat \ {0}, symbol : {"BTCUSDT"}, timeframe : DOMAIN timeframe_to_string,
   open : Int, high : Int, low : Int, close : Int, volume : Nat,
   quality : {"GOOD", "SUSPICIOUS"}]

LEMMA BarIs == Bars \subseteq BarRecords
BY NamesAssumption DEF BarRecords

(* What the rules remember after the bars kept so far.                      *)
Memory(v) ==
  [last_close |-> IF v = <<>> THEN 0 ELSE v[Len(v)].close,
   volume_history |-> LastVolumes(v, Len(v))]

LEMMA VolumesAre ==
  ASSUME NEW v \in Seq(Sane), NEW i \in 0..Len(v)
  PROVE  /\ LastVolumes(v, i) \in Seq(Nat)
         /\ Len(LastVolumes(v, i)) = IF i < HISTORY_SIZE THEN i ELSE HISTORY_SIZE
         /\ \A k \in 1..Len(LastVolumes(v, i)) :
              LastVolumes(v, i)[k] = v[i - Len(LastVolumes(v, i)) + k].volume
<1> DEFINE n == IF i < HISTORY_SIZE THEN i ELSE HISTORY_SIZE
<1>1. n \in Nat /\ n <= i
  BY CleanerAssumption
<1>2. LastVolumes(v, i) = [k \in 1..n |-> v[i - n + k].volume]
  BY DEF LastVolumes
<1>3. ASSUME NEW k \in 1..n
      PROVE  v[i - n + k].volume \in Nat
  <2>1. i - n + k \in 1..Len(v)
    BY <1>1
  <2>2. v[i - n + k] \in BarRecords
    BY <2>1, BarIs, ElementOfSeq DEF Sane, Fresh
  <2> QED
    BY <2>2 DEF BarRecords
<1> HIDE DEF n
<1>4. LastVolumes(v, i) \in [1..n -> Nat]
  BY <1>2, <1>3
<1>5. LastVolumes(v, i) \in Seq(Nat) /\ Len(LastVolumes(v, i)) = n
  BY <1>1, <1>4
<1> QED
  BY <1>2, <1>5, Zenon DEF n

LEMMA Remembers ==
  ASSUME NEW v \in Seq(Sane), NEW bar \in Sane
  PROVE  remembered(LastVolumes(v, Len(v)), bar.volume)
         = LastVolumes(Append(v, bar), Len(v) + 1)
<1> DEFINE m == Len(v)
           w == Append(v, bar)
           H == HISTORY_SIZE
           a == LastVolumes(v, m)
           b == LastVolumes(w, m + 1)
           c == Append(a, bar.volume)
           r == remembered(a, bar.volume)
<1>1. /\ w \in Seq(Sane) /\ Len(w) = m + 1 /\ w[m + 1] = bar
      /\ m \in Nat /\ \A i \in 1..m : w[i] = v[i]
  OBVIOUS
<1>2. /\ a \in Seq(Nat) /\ Len(a) = (IF m < H THEN m ELSE H)
      /\ \A k \in 1..Len(a) : a[k] = v[m - Len(a) + k].volume
  <2>1. m \in 0..Len(v)
    OBVIOUS
  <2> QED
    BY <2>1, VolumesAre, Zenon
<1>3. /\ b \in Seq(Nat) /\ Len(b) = (IF m + 1 < H THEN m + 1 ELSE H)
      /\ \A k \in 1..Len(b) : b[k] = w[(m + 1) - Len(b) + k].volume
  <2>1. m + 1 \in 0..Len(w)
    BY <1>1
  <2> QED
    BY <1>1, <2>1, VolumesAre, Zenon
<1>4. bar.volume \in Nat
  BY BarIs DEF Sane, Fresh, BarRecords
<1>5. H \in Nat \ {0}
  BY CleanerAssumption
<1>6. r = IF Len(c) > H THEN Tail(c) ELSE c
  BY Zenon DEF remembered
<1> HIDE DEF m, w, a, b, r, H
<1>7. /\ c \in Seq(Nat) /\ Len(c) = Len(a) + 1 /\ c[Len(a) + 1] = bar.volume
      /\ \A k \in 1..Len(a) : c[k] = a[k]
  BY <1>2, <1>4
<1> HIDE DEF c
<1>8. CASE m < H
  <2>1. Len(a) = m /\ Len(c) = m + 1 /\ r = c /\ Len(b) = m + 1
    BY <1>1, <1>2, <1>3, <1>5, <1>6, <1>7, <1>8
  <2>2. ASSUME NEW k \in 1..(m + 1)
        PROVE  c[k] = b[k]
    <3>1. b[k] = w[k].volume
      <4>1. (m + 1) - Len(b) + k = k /\ k \in 1..Len(b)
        BY <1>1, <2>1
      <4> QED
        BY <1>3, <4>1
    <3>2. CASE k = m + 1
      BY <1>1, <1>7, <2>1, <3>1, <3>2
    <3>3. CASE k \in 1..m
      <4>1. c[k] = a[k] /\ a[k] = v[k].volume
        <5>1. k \in 1..Len(a) /\ m - Len(a) + k = k
          BY <1>1, <2>1, <3>3
        <5> QED
          BY <1>2, <1>7, <5>1
      <4> QED
        BY <1>1, <3>1, <3>3, <4>1
    <3> QED
      BY <1>1, <3>2, <3>3
  <2>3. r = b
    BY <1>3, <1>7, <2>1, <2>2, SeqEqual
  <2> QED
    BY <2>3 DEF r, b, a, m, w
<1>9. CASE m >= H
  <2>1. Len(a) = H /\ Len(c) = H + 1 /\ r = Tail(c) /\ Len(b) = H
    BY <1>1, <1>2, <1>3, <1>5, <1>6, <1>7, <1>9
  <2>2. c # <<>>
    BY <1>5, <2>1
  <2>3. /\ r \in Seq(Nat) /\ Len(r) = H
        /\ \A k \in 1..H : r[k] = c[k + 1]
    <3>1. /\ Tail(c) \in Seq(Nat) /\ Len(Tail(c)) = Len(c) - 1
          /\ \A k \in 1..Len(Tail(c)) : Tail(c)[k] = c[k + 1]
      BY <1>7, <2>2, HeadTailProperties, Zenon
    <3> QED
      BY <1>5, <2>1, <3>1
  <2>4. ASSUME NEW k \in 1..H
        PROVE  r[k] = b[k]
    <3>1. r[k] = c[k + 1] /\ b[k] = w[(m + 1) - H + k].volume
      BY <1>3, <2>1, <2>3
    <3>2. CASE k = H
      <4>1. c[k + 1] = bar.volume /\ (m + 1) - H + k = m + 1
        BY <1>1, <1>5, <1>7, <2>1, <3>2
      <4> QED
        BY <1>1, <3>1, <4>1
    <3>3. CASE k + 1 \in 1..H
      <4>1. c[k + 1] = a[k + 1] /\ a[k + 1] = v[m - H + (k + 1)].volume
        BY <1>2, <1>7, <2>1, <3>3
      <4>2. m - H + (k + 1) = (m + 1) - H + k /\ m - H + (k + 1) \in 1..m
        BY <1>1, <1>5, <1>9, <3>3
      <4> QED
        BY <1>1, <3>1, <4>1, <4>2
    <3> QED
      BY <1>5, <3>2, <3>3
  <2>5. r = b
    BY <1>3, <2>1, <2>3, <2>4, SeqEqual
  <2> QED
    BY <2>5 DEF r, b, a, m, w
<1> QED
  BY <1>1, <1>5, <1>8, <1>9

LEMMA CheckingRules ==
  ASSUME NEW memory, NEW bar \in Fresh
  PROVE  LET checked == ApplyNext(2, ApplyNext(1, First(memory, bar)))
         IN  /\ validate_ohlcv(bar) =>
                  checked = [keep |-> TRUE, bar |-> bar, memory |-> memory]
             /\ ~validate_ohlcv(bar) => ~checked.keep /\ checked.memory = memory
<1> DEFINE P1 == bar.open > 0 /\ bar.high > 0 /\ bar.low > 0 /\ bar.close > 0
           P2 == ~ \/ bar.high < bar.low
                   \/ bar.high < bar.open \/ bar.high < bar.close
                   \/ bar.low > bar.open \/ bar.low > bar.close
           s1 == ApplyNext(1, First(memory, bar))
           s2 == ApplyNext(2, s1)
<1>1. bar \in BarRecords
  BY BarIs DEF Fresh
<1>2. validate_ohlcv(bar) <=> P1 /\ P2
  BY <1>1 DEF validate_ohlcv, BarRecords
<1>3. P1 \in BOOLEAN /\ P2 \in BOOLEAN
  OBVIOUS
<1>4. /\ Rules[1] = "PriceValidityRule" /\ Rules[2] = "OHLCRelationRule"
  BY DEF Rules
<1>5. ASSUME NEW s, s = [keep |-> TRUE, bar |-> bar, memory |-> memory]
      PROVE  ApplyNext(1, s) = [keep |-> P1, bar |-> bar, memory |-> memory]
  <2>1. s.keep /\ s.bar = bar /\ s.memory = memory
    BY <1>5
  <2>2. apply("PriceValidityRule", memory, bar) = [keep |-> P1, bar |-> bar, memory |-> memory]
    BY DEF apply
  <2> QED
    BY <1>4, <2>1, <2>2 DEF ApplyNext
<1> HIDE DEF P1, s1
<1>6. s1.keep = P1 /\ s1.bar = bar /\ s1.memory = memory
  <2>1. s1 = [keep |-> P1, bar |-> bar, memory |-> memory]
    BY <1>5, Zenon DEF s1, First
  <2> QED
    BY <2>1
<1>7. P1 => s2 = [keep |-> P2, bar |-> bar, memory |-> memory]
  <2>1. apply("OHLCRelationRule", memory, bar) = [keep |-> P2, bar |-> bar, memory |-> memory]
    BY DEF apply
  <2> QED
    BY <1>4, <1>6, <2>1 DEF ApplyNext
<1>8. ~P1 => s2 = s1
  BY <1>6 DEF ApplyNext
<1> HIDE DEF P2, s2
<1>9. validate_ohlcv(bar) => s2 = [keep |-> TRUE, bar |-> bar, memory |-> memory]
  <2>1. ASSUME P1, P2
        PROVE  s2 = [keep |-> TRUE, bar |-> bar, memory |-> memory]
    <3>1. P2 = TRUE
      BY <1>3, <2>1
    <3> QED
      BY <1>7, <2>1, <3>1
  <2> QED
    BY <1>2, <2>1
<1>10. ~validate_ohlcv(bar) => ~s2.keep /\ s2.memory = memory
  <2>1. CASE ~P1
    BY <1>6, <1>8, <2>1
  <2>2. CASE P1 /\ ~P2
    <3>1. s2.keep = P2 /\ s2.memory = memory
      BY <1>7, <2>2
    <3> QED
      BY <2>2, <3>1
  <2> QED
    BY <1>2, <2>1, <2>2
<1> QED
  BY <1>9, <1>10, Zenon DEF s1, s2

(* The two rules that remember mark a valid bar against the ones kept.      *)
LEMMA MarkingRules ==
  ASSUME NEW v \in Seq(Sane), NEW bar \in Sane
  PROVE  LET w == Append(v, bar)
             valid == [keep |-> TRUE, bar |-> bar, memory |-> Memory(v)]
         IN  ApplyNext(4, ApplyNext(3, valid))
             = [keep |-> TRUE, bar |-> Marked(w, Len(w)), memory |-> Memory(w)]
<1> DEFINE m == Len(v)
           w == Append(v, bar)
           M == Memory(v)
           N == [M EXCEPT !.last_close = bar.close]
           valid == [keep |-> TRUE, bar |-> bar, memory |-> M]
           marked == suspicious_if(detect_price_jump(bar.close, M.last_close), bar)
           volumes == remembered(N.volume_history, marked.volume)
           stands == /\ Len(volumes) >= MinVolumes
                     /\ detect_volume_anomaly(marked.volume, volumes)
<1>1. /\ w \in Seq(Sane) /\ Len(w) = m + 1 /\ w[m + 1] = bar /\ w # <<>>
      /\ m \in Nat /\ \A i \in 1..m : w[i] = v[i]
  OBVIOUS
<1>2. bar \in BarRecords /\ bar.quality = "GOOD"
  BY BarIs DEF Sane, Fresh
<1>3. /\ M.last_close = (IF v = <<>> THEN 0 ELSE v[m].close)
      /\ M.volume_history = LastVolumes(v, m)
      /\ N = [last_close |-> bar.close, volume_history |-> LastVolumes(v, m)]
  BY DEF Memory
<1>4. N.volume_history = LastVolumes(v, m) /\ marked.volume = bar.volume
  BY <1>2, <1>3 DEF suspicious_if, BarRecords
<1>5. volumes = LastVolumes(w, m + 1)
  BY <1>4, Remembers, Zenon
<1>6. Memory(w) = [N EXCEPT !.volume_history = volumes]
  <2>1. w[Len(w)].close = bar.close /\ Len(w) = m + 1
    BY <1>1
  <2>2. Memory(w) = [last_close |-> bar.close, volume_history |-> LastVolumes(w, m + 1)]
    BY <1>1, <2>1, Zenon DEF Memory
  <2> HIDE DEF volumes, N, w
  <2> QED
    BY <1>3, <1>5, <2>2
<1>7. detect_price_jump(bar.close, M.last_close) <=> Jumps(w, m + 1)
  <2>1. CASE v = <<>>
    <3>1. m = 0 /\ M.last_close = 0
      BY <1>3, <2>1
    <3> HIDE DEF M, w, m
    <3> QED
      BY <3>1 DEF detect_price_jump, Jumps
  <2>2. CASE v # <<>>
    <3>1. m \in 1..Len(v) /\ m > 0
      BY <2>2
    <3>2. v[m] \in Sane
      BY <3>1, ElementOfSeq, Zenon
    <3>3. v[m].close > 0
      BY <3>2 DEF Sane, validate_ohlcv
    <3>4. w[(m + 1) - 1] = v[m] /\ w[m + 1] = bar /\ m + 1 > 1
      BY <1>1, <3>1
    <3>5. M.last_close = v[m].close
      BY <1>3, <2>2
    <3> HIDE DEF M, w, m
    <3> QED
      BY <3>3, <3>4, <3>5 DEF detect_price_jump, Jumps
  <2> QED
    BY <2>1, <2>2
<1>8. stands <=> VolumeStandsOut(w, m + 1)
  <2>1. Len(LastVolumes(w, m + 1)) = IF m + 1 < HISTORY_SIZE THEN m + 1 ELSE HISTORY_SIZE
    <3>1. m + 1 \in 0..Len(w)
      BY <1>1
    <3> QED
      BY <1>1, <3>1, VolumesAre, Zenon
  <2>2. Len(LastVolumes(w, m + 1)) >= MinVolumes <=> m + 1 >= MinVolumes
    BY <1>1, <2>1, CleanerAssumption
  <2> HIDE DEF volumes, m, w, marked
  <2>3. w[m + 1].volume = bar.volume
    BY <1>1
  <2> QED
    BY <1>4, <1>5, <2>2, <2>3, Zenon DEF VolumeStandsOut, detect_volume_anomaly
<1>9. suspicious_if(stands, marked) = Marked(w, m + 1)
  <2>1. bar = [bar EXCEPT !.quality = "GOOD"]
    BY <1>2 DEF BarRecords
  <2>2. [[bar EXCEPT !.quality = "SUSPICIOUS"] EXCEPT !.quality = "SUSPICIOUS"]
        = [bar EXCEPT !.quality = "SUSPICIOUS"]
    BY <1>2 DEF BarRecords
  <2>3. Marked(w, m + 1) =
          IF Jumps(w, m + 1) \/ VolumeStandsOut(w, m + 1)
          THEN [bar EXCEPT !.quality = "SUSPICIOUS"] ELSE [bar EXCEPT !.quality = "GOOD"]
    <3> HIDE DEF m, w
    <3> QED
      BY <1>1 DEF Marked
  <2>4. marked = IF Jumps(w, m + 1) THEN [bar EXCEPT !.quality = "SUSPICIOUS"] ELSE bar
    <3> HIDE DEF m, w, M
    <3> QED
      BY <1>7 DEF suspicious_if
  <2> HIDE DEF m, w, stands, marked
  <2>5. CASE stands
    BY <1>8, <2>2, <2>3, <2>4, <2>5 DEF suspicious_if
  <2>6. CASE ~stands
    BY <1>8, <2>1, <2>3, <2>4, <2>6 DEF suspicious_if
  <2> QED
    BY <2>5, <2>6
<1>10. ApplyNext(3, valid) = [keep |-> TRUE, bar |-> marked, memory |-> N]
  <2>1. Rules[3] = "PriceJumpRule" /\ valid.keep /\ valid.bar = bar /\ valid.memory = M
    BY DEF Rules
  <2>2. apply("PriceJumpRule", M, bar) = [keep |-> TRUE, bar |-> marked, memory |-> N]
    <3> HIDE DEF M
    <3> QED
      BY DEF apply
  <2> HIDE DEF valid, M, marked, N
  <2> QED
    BY <2>1, <2>2 DEF ApplyNext
<1>11. ASSUME NEW s, s = [keep |-> TRUE, bar |-> marked, memory |-> N]
       PROVE  ApplyNext(4, s) =
                [keep |-> TRUE, bar |-> suspicious_if(stands, marked),
                 memory |-> [N EXCEPT !.volume_history = volumes]]
  <2> HIDE DEF marked, N
  <2>1. Rules[4] = "VolumeAnomalyRule" /\ s.keep /\ s.bar = marked /\ s.memory = N
    BY <1>11 DEF Rules
  <2>2. apply("VolumeAnomalyRule", N, marked) =
          [keep |-> TRUE, bar |-> suspicious_if(stands, marked),
           memory |-> [N EXCEPT !.volume_history = volumes]]
    BY DEF apply
  <2> HIDE DEF stands, volumes
  <2> QED
    BY <2>1, <2>2 DEF ApplyNext
<1> HIDE DEF marked, N, stands, volumes, valid
<1>12. ApplyNext(4, ApplyNext(3, valid)) =
         [keep |-> TRUE, bar |-> Marked(w, m + 1), memory |-> Memory(w)]
  BY <1>6, <1>9, <1>10, <1>11, Zenon
<1>13. Len(w) = m + 1
  BY <1>1
<1> QED
  BY <1>12, <1>13, Zenon DEF valid, M

(* What one bar more does to the cleaner.                                   *)
LEMMA CleanOne ==
  ASSUME NEW v \in Seq(Sane), NEW bar \in Fresh
  PROVE  LET done == clean_ohlcv(Memory(v), bar)
             w == Append(v, bar)
         IN  /\ validate_ohlcv(bar) =>
                  done = [keep |-> TRUE, bar |-> Marked(w, Len(w)), memory |-> Memory(w)]
             /\ ~validate_ohlcv(bar) => ~done.keep /\ done.memory = Memory(v)
<1> DEFINE done == clean_ohlcv(Memory(v), bar)
           s2 == ApplyNext(2, ApplyNext(1, First(Memory(v), bar)))
<1>1. done = ApplyNext(4, ApplyNext(3, s2))
  BY CleanIs, Zenon
<1>2. /\ validate_ohlcv(bar) => s2 = [keep |-> TRUE, bar |-> bar, memory |-> Memory(v)]
      /\ ~validate_ohlcv(bar) => ~s2.keep /\ s2.memory = Memory(v)
  BY CheckingRules, Zenon
<1> HIDE DEF s2, done
<1>3. CASE validate_ohlcv(bar)
  <2>1. bar \in Sane
    BY <1>3 DEF Sane
  <2> QED
    BY <1>1, <1>2, <1>3, <2>1, MarkingRules, Zenon DEF done
<1>4. CASE ~validate_ohlcv(bar)
  <2>1. ApplyNext(3, s2) = s2 /\ ApplyNext(4, s2) = s2
    BY <1>2, <1>4 DEF ApplyNext
  <2> QED
    BY <1>1, <1>2, <1>4, <2>1 DEF done
<1> QED
  BY <1>3, <1>4

MarkedAll(v) == [i \in 1..Len(v) |-> Marked(v, i)]

LEMMA MarkIsBar ==
  ASSUME NEW v \in Seq(Sane), NEW i \in 1..Len(v)
  PROVE  /\ Marked(v, i) \in Bars
         /\ Marked(v, i).timestamp = v[i].timestamp /\ Marked(v, i).symbol = v[i].symbol
         /\ Marked(v, i).close = v[i].close /\ Marked(v, i).timeframe = v[i].timeframe
<1>1. v[i] \in Sane
  BY ElementOfSeq, Zenon
<1>2. v[i] \in BarRecords /\ v[i] \in Bars /\ v[i].quality = "GOOD"
  BY <1>1, BarIs DEF Sane, Fresh
<1>3. v[i] = [v[i] EXCEPT !.quality = "GOOD"]
  BY <1>2 DEF BarRecords
<1>4. [v[i] EXCEPT !.quality = "SUSPICIOUS"] \in Bars
  BY <1>2, NamesAssumption
<1>5. \/ Marked(v, i) = [v[i] EXCEPT !.quality = "SUSPICIOUS"]
      \/ Marked(v, i) = [v[i] EXCEPT !.quality = "GOOD"]
  BY Zenon DEF Marked
<1> QED
  BY <1>2, <1>3, <1>4, <1>5 DEF BarRecords

(* A bar more does not change the marks of the bars before it.              *)
LEMMA MarksStay ==
  ASSUME NEW v \in Seq(Sane), NEW bar \in Sane, NEW i \in 1..Len(v)
  PROVE  Marked(Append(v, bar), i) = Marked(v, i)
<1> DEFINE w == Append(v, bar)
<1>1. /\ w \in Seq(Sane) /\ Len(w) = Len(v) + 1 /\ \A j \in 1..Len(v) : w[j] = v[j]
  OBVIOUS
<1>2. w[i] = v[i] /\ (i > 1 => w[i-1] = v[i-1])
  BY <1>1
<1>3. LastVolumes(w, i) = LastVolumes(v, i)
  <2> DEFINE n == IF i < HISTORY_SIZE THEN i ELSE HISTORY_SIZE
  <2>1. \A k \in 1..n : i - n + k \in 1..Len(v)
    BY CleanerAssumption
  <2>2. \A k \in 1..n : w[i - n + k].volume = v[i - n + k].volume
    BY <1>1, <2>1
  <2> HIDE DEF n, w
  <2>3. [k \in 1..n |-> w[i - n + k].volume] = [k \in 1..n |-> v[i - n + k].volume]
    BY <2>2, Zenon
  <2> QED
    BY <2>3, Zenon DEF LastVolumes, n
<1> HIDE DEF w
<1>4. VolumeStandsOut(w, i) = VolumeStandsOut(v, i)
  BY <1>2, <1>3, Zenon DEF VolumeStandsOut
<1>5. Jumps(w, i) = Jumps(v, i)
  BY <1>2 DEF Jumps
<1> QED
  BY <1>2, <1>4, <1>5, Zenon DEF Marked, w

LEMMA MarkedAppend ==
  ASSUME NEW v \in Seq(Sane), NEW bar \in Sane
  PROVE  MarkedAll(Append(v, bar))
         = Append(MarkedAll(v), Marked(Append(v, bar), Len(Append(v, bar))))
<1> DEFINE w == Append(v, bar)
           n == Len(v)
           x == Marked(w, Len(w))
           s == MarkedAll(v)
           t == MarkedAll(w)
<1>1. w \in Seq(Sane) /\ Len(w) = n + 1 /\ n \in Nat
  OBVIOUS
<1>2. s \in [1..n -> Bars]
  BY MarkIsBar DEF MarkedAll
<1>3. s \in Seq(Bars) /\ Len(s) = n
  BY <1>1, <1>2
<1>4. t \in [1..(n + 1) -> Bars]
  <2>1. \A i \in 1..(n + 1) : Marked(w, i) \in Bars
    BY <1>1, MarkIsBar, Zenon
  <2> QED
    BY <1>1, <2>1 DEF MarkedAll
<1>5. t \in Seq(Bars) /\ Len(t) = n + 1
  BY <1>1, <1>4
<1>6. x \in Bars /\ t[n + 1] = x
  <2>1. n + 1 \in 1..Len(w) /\ n + 1 = Len(w)
    BY <1>1
  <2> HIDE DEF w, n
  <2> QED
    BY <1>1, <2>1, MarkIsBar, Zenon DEF MarkedAll
<1>7. \A i \in 1..n : t[i] = s[i]
  <2> TAKE i \in 1..n
  <2>1. i \in 1..Len(w)
    BY <1>1
  <2> QED
    BY <2>1, MarksStay, Zenon DEF MarkedAll
<1> HIDE DEF s, t, x, w, n
<1>8. t = Append(s, x)
  BY <1>1, <1>3, <1>5, <1>6, <1>7, SeqEqual
<1> QED
  BY <1>8, Zenon DEF s, t, x, w

ValidBars == INSTANCE ChosenLemmas WITH keep <- validate_ohlcv

Untouched == [memory |-> NoMemory, kept |-> <<>>]
Cleaning  == INSTANCE FoldLemmas WITH op <- clean_next, base <- Untouched

LEMMA ValidIs ==
  ASSUME NEW bars
  PROVE  Valid(bars) = ValidBars!Chosen(bars)
BY Zenon
   DEF Valid, chosen, ValidBars!Chosen, ValidBars!chosen,
       FoldLeft, ValidBars!FoldLeft, MapThenFoldSet, ValidBars!MapThenFoldSet,
       Max, ValidBars!Max

Cleaned(bars) == FoldLeft(clean_next, Untouched, bars)

LEMMA CleanedIsFold ==
  ASSUME NEW bars
  PROVE  Cleaned(bars) = Cleaning!FoldLeft(clean_next, Untouched, bars)
BY Zenon
   DEF Cleaned, FoldLeft, Cleaning!FoldLeft, MapThenFoldSet, Cleaning!MapThenFoldSet,
       Max, Cleaning!Max

LEMMA ValidType ==
  ASSUME NEW bars \in Seq(Fresh)
  PROVE  Valid(bars) \in Seq(Sane)
<1>1. ValidBars!Chosen(bars) \in Seq({bar \in Fresh : validate_ohlcv(bar)})
  BY ValidBars!ChosenType, Zenon
<1> QED
  BY <1>1, ValidIs, Zenon DEF Sane

(* The cleaner marks the valid bars, whatever else was in the batch.        *)
LEMMA CleanBatch ==
  ASSUME NEW bars \in Seq(Fresh)
  PROVE  clean_ohlcv_batch(bars) = MarkedAll(Valid(bars))
<1> DEFINE v(k) == Valid(SubSeq(bars, 1, k))
           c(k) == Cleaned(SubSeq(bars, 1, k))
           T == {k \in 0..Len(bars) :
                   c(k) = [memory |-> Memory(v(k)), kept |-> MarkedAll(v(k))]}
<1>1. 0 \in T
  <2>1. SubSeq(bars, 1, 0) = <<>> /\ 0 \in 0..Len(bars)
    OBVIOUS
  <2>2. Valid(<<>>) = <<>>
    BY ValidIs, ValidBars!ChosenEmpty, Zenon
  <2>3. Cleaned(<<>>) = Untouched
    BY CleanedIsFold, Cleaning!FoldEmpty, Zenon
  <2>4. Memory(<<>>) = NoMemory
    <3>1. LastVolumes(<<>>, 0) = <<>>
      <4>1. LastVolumes(<<>>, 0) = [k \in 1..0 |-> <<>>[0 - 0 + k].volume]
        BY CleanerAssumption DEF LastVolumes
      <4>2. 1..0 = {}
        OBVIOUS
      <4> QED
        BY <4>1, <4>2
    <3> QED
      BY <3>1 DEF Memory, NoMemory
  <2>5. MarkedAll(<<>>) = <<>>
    BY DEF MarkedAll
  <2>6. c(0) = [memory |-> Memory(v(0)), kept |-> MarkedAll(v(0))]
    BY <2>1, <2>2, <2>3, <2>4, <2>5, Zenon DEF Untouched
  <2> QED
    BY <2>1, <2>6
<1>2. ASSUME NEW k \in 0..(Len(bars) - 1), k \in T
      PROVE  k + 1 \in T
  <2> DEFINE bar == bars[k + 1]
             w == Append(v(k), bar)
             done == clean_ohlcv(Memory(v(k)), bar)
  <2>1. k + 1 \in 0..Len(bars) /\ bar \in Fresh /\ SubSeq(bars, 1, k) \in Seq(Fresh)
    OBVIOUS
  <2>2. v(k) \in Seq(Sane)
    BY <2>1, ValidType, Zenon
  <2>3. v(k + 1) = IF validate_ohlcv(bar) THEN w ELSE v(k)
    BY ValidIs, ValidBars!ChosenOfPrefix, Zenon
  <2>4. c(k + 1) = clean_next(c(k), bar)
    BY CleanedIsFold, Cleaning!FoldOfPrefix, Zenon
  <2>5. c(k) = [memory |-> Memory(v(k)), kept |-> MarkedAll(v(k))]
    BY <1>2
  <2>6. /\ validate_ohlcv(bar) =>
             done = [keep |-> TRUE, bar |-> Marked(w, Len(w)), memory |-> Memory(w)]
        /\ ~validate_ohlcv(bar) => ~done.keep /\ done.memory = Memory(v(k))
    BY <2>1, <2>2, CleanOne, Zenon
  <2> HIDE DEF v, c, bar, w, done
  <2>7. c(k).memory = Memory(v(k)) /\ c(k).kept = MarkedAll(v(k))
    BY <2>5
  <2>8. c(k + 1) = keep_cleaned(MarkedAll(v(k)), done)
    BY <2>4, <2>7, CleanNextIs, Zenon DEF done
  <2>9. c(k + 1) = [memory |-> Memory(v(k + 1)), kept |-> MarkedAll(v(k + 1))]
    <3>1. CASE validate_ohlcv(bar)
      <4>1. bar \in Sane
        BY <2>1, <3>1 DEF Sane
      <4>2. MarkedAll(w) = Append(MarkedAll(v(k)), Marked(w, Len(w)))
        BY <2>2, <4>1, MarkedAppend, Zenon DEF w
      <4>3. /\ done.keep /\ done.bar = Marked(w, Len(w)) /\ done.memory = Memory(w)
            /\ v(k + 1) = w
        BY <2>3, <2>6, <3>1
      <4> QED
        BY <2>8, <4>2, <4>3 DEF keep_cleaned
    <3>2. CASE ~validate_ohlcv(bar)
      BY <2>3, <2>6, <2>8, <3>2 DEF keep_cleaned
    <3> QED
      BY <3>1, <3>2
  <2> QED
    BY <2>1, <2>9
<1> HIDE DEF T
<1>3. Len(bars) \in T
  BY <1>1, <1>2, ValidBars!PrefixInduction, Zenon
<1>4. SubSeq(bars, 1, Len(bars)) = bars
  BY SubSeqFull, Zenon
<1>5. Cleaned(bars) = [memory |-> Memory(Valid(bars)), kept |-> MarkedAll(Valid(bars))]
  BY <1>3, <1>4, Zenon DEF T
<1>6. Cleaned(bars).kept = MarkedAll(Valid(bars))
  BY <1>5
<1> QED
  BY <1>6, Zenon DEF clean_ohlcv_batch, Cleaned, Untouched

(* What the cleaner hands on: bars of the same time, symbol and close.      *)
LEMMA CleanedBars ==
  ASSUME NEW bars \in Seq(Fresh)
  PROVE  LET valid == Valid(bars)
             kept == clean_ohlcv_batch(bars)
         IN  /\ kept \in Seq(Bars) /\ Len(kept) = Len(valid) /\ valid \in Seq(Sane)
             /\ \A i \in 1..Len(kept) :
                  /\ kept[i].timestamp = valid[i].timestamp
                  /\ kept[i].close = valid[i].close
                  /\ kept[i].timeframe = valid[i].timeframe
<1> DEFINE valid == Valid(bars)
           kept == clean_ohlcv_batch(bars)
<1>1. valid \in Seq(Sane) /\ kept = [i \in 1..Len(valid) |-> Marked(valid, i)]
  BY CleanBatch, ValidType, Zenon DEF MarkedAll
<1> HIDE DEF valid, kept
<1>2. \A i \in 1..Len(valid) :
        /\ Marked(valid, i) \in Bars /\ Marked(valid, i).timestamp = valid[i].timestamp
        /\ Marked(valid, i).close = valid[i].close
        /\ Marked(valid, i).timeframe = valid[i].timeframe
  BY <1>1, MarkIsBar, Zenon
<1>3. kept \in [1..Len(valid) -> Bars] /\ Len(valid) \in Nat
  BY <1>1, <1>2
<1>4. kept \in Seq(Bars) /\ Len(kept) = Len(valid)
  BY <1>3
<1>5. \A i \in 1..Len(kept) : kept[i] = Marked(valid, i)
  BY <1>1, <1>4
<1> QED
  BY <1>1, <1>2, <1>4, <1>5, Zenon DEF valid, kept

(* Taking each candle once.                                                 *)
Uniting == INSTANCE FoldLemmas WITH op <- insert_unseen, base <- <<>>

LEMMA UnitedIsFold ==
  ASSUME NEW bars
  PROVE  deduplicate(bars) = Uniting!FoldLeft(insert_unseen, <<>>, bars)
BY Zenon
   DEF deduplicate, FoldLeft, Uniting!FoldLeft, MapThenFoldSet, Uniting!MapThenFoldSet,
       Max, Uniting!Max

FirstAt(bars, i) == \A j \in 1..(i - 1) : bars[j].timestamp # bars[i].timestamp
Quotes(bars, positions) == {Quoted(bars, i) : i \in positions}

(* What is left of the first k bars.                                        *)
Distinct(u) ==
  \A i, j \in 1..Len(u) : i # j => u[i].timestamp # u[j].timestamp

UniteInv(bars, k, u) ==
  /\ u \in Seq(Bars)
  /\ \A i \in 1..Len(u) : \E x \in 1..k : u[i] = bars[x]
  /\ \A x \in 1..k : \E i \in 1..Len(u) : u[i].timestamp = bars[x].timestamp
  /\ Distinct(u)
  /\ Quotes(u, 1..Len(u)) = Quotes(bars, {x \in 1..k : FirstAt(bars, x)})

LEMMA UniteStep ==
  ASSUME NEW bars \in Seq(Bars), NEW k \in 0..(Len(bars) - 1), NEW u,
         UniteInv(bars, k, u)
  PROVE  UniteInv(bars, k + 1, insert_unseen(u, bars[k + 1]))
<1> DEFINE bar == bars[k + 1]
           n == Len(u)
           w == insert_unseen(u, bar)
           Firsts(m) == {x \in 1..m : FirstAt(bars, x)}
<1>1. /\ u \in Seq(Bars)
      /\ \A i \in 1..n : \E x \in 1..k : u[i] = bars[x]
      /\ \A x \in 1..k : \E i \in 1..n : u[i].timestamp = bars[x].timestamp
      /\ Distinct(u)
      /\ Quotes(u, 1..n) = Quotes(bars, Firsts(k))
  BY Zenon DEF UniteInv
<1>2. bar \in Bars /\ n \in Nat /\ DOMAIN u = 1..n /\ k \in Nat
  BY <1>1
<1>3. \A i \in 1..n : u[i].symbol = bar.symbol
  <2>1. \A b \in Bars : b.symbol = "BTCUSDT"
    BY BarIs DEF BarRecords
  <2> QED
    BY <1>1, <1>2, <2>1, ElementOfSeq
<1>4. seen_in(u, bar) <=> \E i \in 1..n : u[i].timestamp = bar.timestamp
  BY <1>2, <1>3, Zenon DEF seen_in
<1>5. w = IF seen_in(u, bar) THEN u ELSE Append(u, bar)
  BY InsertIs, Zenon
<1>6. FirstAt(bars, k + 1) <=> ~ \E x \in 1..k : bars[x].timestamp = bar.timestamp
  <2>1. 1..((k + 1) - 1) = 1..k
    BY <1>2
  <2> QED
    BY <2>1, Zenon DEF FirstAt
<1> HIDE DEF n, w
<1>7. CASE seen_in(u, bar)
  <2>1. PICK i \in 1..n : u[i].timestamp = bar.timestamp
    BY <1>4, <1>7
  <2>2. PICK x \in 1..k : u[i] = bars[x]
    BY <1>1, <2>1, Zenon
  <2>3. ~FirstAt(bars, k + 1)
    BY <1>6, <2>1, <2>2
  <2>4. Firsts(k + 1) = Firsts(k)
    <3>1. 1..(k + 1) = 1..k \cup {k + 1}
      BY <1>2
    <3> QED
      BY <2>3, <3>1
  <2>5. w = u
    BY <1>5, <1>7
  <2>6. \A j \in 1..n : \E y \in 1..(k + 1) : u[j] = bars[y]
    <3>1. 1..k \subseteq 1..(k + 1)
      BY <1>2
    <3> QED
      BY <1>1, <3>1
  <2>7. \A y \in 1..(k + 1) : \E j \in 1..n : u[j].timestamp = bars[y].timestamp
    <3>1. 1..(k + 1) = 1..k \cup {k + 1}
      BY <1>2
    <3> QED
      BY <1>1, <2>1, <3>1
  <2>8. UniteInv(bars, k + 1, u)
    <3> HIDE DEF bar
    <3>1. Quotes(u, 1..n) = Quotes(bars, Firsts(k + 1))
      BY <1>1, <2>4
    <3> QED
      BY <1>1, <2>6, <2>7, <3>1, Zenon DEF UniteInv, n, Firsts
  <2> QED
    BY <2>5, <2>8, Zenon DEF w
<1>8. CASE ~seen_in(u, bar)
  <2>1. /\ w = Append(u, bar) /\ w \in Seq(Bars) /\ Len(w) = n + 1 /\ w[n + 1] = bar
        /\ \A i \in 1..n : w[i] = u[i]
    BY <1>1, <1>2, <1>5, <1>8 DEF n
  <2>2. \A i \in 1..n : u[i].timestamp # bar.timestamp
    BY <1>4, <1>8
  <2>3. FirstAt(bars, k + 1)
    <3>1. ASSUME NEW x \in 1..k, bars[x].timestamp = bar.timestamp
          PROVE  FALSE
      BY <1>1, <2>2, <3>1
    <3> QED
      BY <1>6, <3>1
  <2>4. Firsts(k + 1) = Firsts(k) \cup {k + 1}
    <3>1. 1..(k + 1) = 1..k \cup {k + 1}
      BY <1>2
    <3> QED
      BY <2>3, <3>1
  <2>5. 1..(n + 1) = 1..n \cup {n + 1} /\ 1..(k + 1) = 1..k \cup {k + 1}
    BY <1>2
  <2>6. \A j \in 1..(n + 1) : \E y \in 1..(k + 1) : w[j] = bars[y]
    <3>1. ASSUME NEW j \in 1..n
          PROVE  \E y \in 1..(k + 1) : w[j] = bars[y]
      <4>1. PICK y \in 1..k : u[j] = bars[y]
        BY <1>1
      <4>2. y \in 1..(k + 1) /\ w[j] = u[j]
        BY <2>1, <2>5
      <4> QED
        BY <4>1, <4>2
    <3>2. w[n + 1] = bars[k + 1] /\ k + 1 \in 1..(k + 1)
      BY <1>2, <2>1
    <3> QED
      BY <2>5, <3>1, <3>2
  <2>7. \A y \in 1..(k + 1) : \E j \in 1..(n + 1) : w[j].timestamp = bars[y].timestamp
    <3>1. ASSUME NEW y \in 1..k
          PROVE  \E j \in 1..(n + 1) : w[j].timestamp = bars[y].timestamp
      <4>1. PICK j \in 1..n : u[j].timestamp = bars[y].timestamp
        BY <1>1
      <4>2. j \in 1..(n + 1) /\ w[j] = u[j]
        BY <2>1, <2>5
      <4> QED
        BY <4>1, <4>2
    <3> QED
      BY <2>1, <2>5, <3>1
  <2>8. Distinct(w)
    <3> SUFFICES ASSUME NEW i \in 1..(n + 1), NEW j \in 1..(n + 1), i # j
                 PROVE  w[i].timestamp # w[j].timestamp
      BY <2>1 DEF Distinct
    <3>1. CASE i \in 1..n /\ j \in 1..n
      BY <1>1, <2>1, <3>1 DEF Distinct, n
    <3>2. CASE i \in 1..n /\ j = n + 1
      BY <2>1, <2>2, <3>2
    <3>3. CASE i = n + 1 /\ j \in 1..n
      BY <2>1, <2>2, <3>3
    <3> QED
      BY <2>5, <3>1, <3>2, <3>3
  <2>9. Quotes(w, 1..(n + 1)) = Quotes(bars, Firsts(k + 1))
    <3>1. Quotes(w, 1..(n + 1)) = Quotes(w, 1..n) \cup {Quoted(w, n + 1)}
      BY <2>5, Zenon DEF Quotes
    <3>2. Quotes(w, 1..n) = Quotes(u, 1..n)
      <4>1. \A i \in 1..n : Quoted(w, i) = Quoted(u, i)
        BY <2>1, Zenon DEF Quoted
      <4> QED
        BY <4>1, Zenon DEF Quotes
    <3>3. Quoted(w, n + 1) = Quoted(bars, k + 1)
      BY <2>1, Zenon DEF Quoted
    <3>4. Quotes(bars, Firsts(k + 1)) = Quotes(bars, Firsts(k)) \cup {Quoted(bars, k + 1)}
      <4> HIDE DEF Firsts
      <4> QED
        BY <2>4, Zenon DEF Quotes
    <3> QED
      BY <1>1, <3>1, <3>2, <3>3, <3>4, Zenon
  <2>10. UniteInv(bars, k + 1, w)
    <3>1. Len(w) = n + 1
      BY <2>1
    <3> HIDE DEF Firsts, bar
    <3>2. /\ \A j \in 1..Len(w) : \E y \in 1..(k + 1) : w[j] = bars[y]
          /\ \A y \in 1..(k + 1) : \E j \in 1..Len(w) : w[j].timestamp = bars[y].timestamp
          /\ Quotes(w, 1..Len(w)) = Quotes(bars, Firsts(k + 1))
      BY <2>6, <2>7, <2>9, <3>1, Zenon
    <3> QED
      BY <2>1, <2>8, <3>2, Zenon DEF UniteInv, Firsts
  <2> QED
    BY <2>10, Zenon DEF w
<1> QED
  BY <1>7, <1>8

LEMMA Unites ==
  ASSUME NEW bars \in Seq(Bars)
  PROVE  UniteInv(bars, Len(bars), deduplicate(bars))
<1> DEFINE u(k) == deduplicate(SubSeq(bars, 1, k))
           T == {k \in 0..Len(bars) : UniteInv(bars, k, u(k))}
<1>1. 0 \in T
  <2>1. SubSeq(bars, 1, 0) = <<>> /\ 0 \in 0..Len(bars)
    OBVIOUS
  <2>2. deduplicate(<<>>) = <<>>
    BY UnitedIsFold, Uniting!FoldEmpty, Zenon
  <2>3. UniteInv(bars, 0, <<>>)
    <3>1. /\ <<>> \in Seq(Bars) /\ Len(<<>>) = 0 /\ 1..0 = {}
      OBVIOUS
    <3> QED
      BY <3>1 DEF UniteInv, Distinct, Quotes
  <2> QED
    BY <2>1, <2>2, <2>3
<1>2. ASSUME NEW k \in 0..(Len(bars) - 1), k \in T
      PROVE  k + 1 \in T
  <2>1. k + 1 \in 0..Len(bars)
    OBVIOUS
  <2>2. u(k + 1) = insert_unseen(u(k), bars[k + 1])
    BY UnitedIsFold, Uniting!FoldOfPrefix, Zenon
  <2>3. UniteInv(bars, k, u(k))
    BY <1>2
  <2> HIDE DEF u
  <2>4. UniteInv(bars, k + 1, u(k + 1))
    BY <2>2, <2>3, UniteStep, Zenon
  <2> QED
    BY <2>1, <2>4
<1> HIDE DEF T
<1>3. Len(bars) \in T
  BY <1>1, <1>2, ValidBars!PrefixInduction, Zenon
<1>4. SubSeq(bars, 1, Len(bars)) = bars
  BY SubSeqFull, Zenon
<1> QED
  BY <1>3, <1>4, Zenon DEF T

(* What "clean" saves: one bar per candle, the first valid copy.            *)
LEMMA CleanedOnce ==
  ASSUME NEW bars \in Seq(Fresh)
  PROVE  LET valid == Valid(bars)
             saved_bars == deduplicate(clean_ohlcv_batch(bars))
         IN  /\ saved_bars \in Seq(Bars) /\ Distinct(saved_bars)
             /\ {Quoted(saved_bars, i) : i \in DOMAIN saved_bars}
                = {Quoted(valid, i) : i \in {k \in DOMAIN valid : FirstAt(valid, k)}}
             /\ \A i \in 1..Len(saved_bars) :
                  \E x \in 1..Len(valid) : saved_bars[i].timeframe = valid[x].timeframe
<1> DEFINE valid == Valid(bars)
           kept == clean_ohlcv_batch(bars)
           u == deduplicate(kept)
<1>1. /\ kept \in Seq(Bars) /\ Len(kept) = Len(valid) /\ valid \in Seq(Sane)
      /\ \A i \in 1..Len(kept) : /\ kept[i].timestamp = valid[i].timestamp
                                 /\ kept[i].close = valid[i].close
                                 /\ kept[i].timeframe = valid[i].timeframe
  BY CleanedBars, Zenon
<1> HIDE DEF valid, kept
<1>2. UniteInv(kept, Len(kept), u)
  BY <1>1, Unites, Zenon
<1> HIDE DEF u
<1>3. /\ u \in Seq(Bars) /\ Distinct(u)
      /\ \A i \in 1..Len(u) : \E x \in 1..Len(kept) : u[i] = kept[x]
      /\ Quotes(u, 1..Len(u)) = Quotes(kept, {x \in 1..Len(kept) : FirstAt(kept, x)})
  BY <1>2, Zenon DEF UniteInv
<1>4. DOMAIN u = 1..Len(u) /\ DOMAIN valid = 1..Len(valid)
  BY <1>1, <1>3
<1>5. \A x \in 1..Len(valid) : Quoted(kept, x) = Quoted(valid, x)
  BY <1>1, Zenon DEF Quoted
<1>6. \A x \in 1..Len(valid) : FirstAt(kept, x) <=> FirstAt(valid, x)
  <2> TAKE x \in 1..Len(valid)
  <2>1. 1..(x - 1) \subseteq 1..Len(valid)
    BY <1>1
  <2>2. \A j \in 1..(x - 1) : kept[j].timestamp = valid[j].timestamp
    BY <1>1, <2>1
  <2> QED
    BY <1>1, <2>2, Zenon DEF FirstAt
<1>7. {x \in 1..Len(kept) : FirstAt(kept, x)} = {x \in DOMAIN valid : FirstAt(valid, x)}
  BY <1>1, <1>4, <1>6
<1> DEFINE firsts == {x \in DOMAIN valid : FirstAt(valid, x)}
<1>8. Quotes(kept, firsts) = Quotes(valid, firsts)
  <2>1. \A x \in firsts : Quoted(kept, x) = Quoted(valid, x)
    BY <1>4, <1>5
  <2> HIDE DEF firsts
  <2> QED
    BY <2>1, Zenon DEF Quotes
<1>9. {Quoted(u, i) : i \in DOMAIN u} = {Quoted(valid, i) : i \in firsts}
  BY <1>3, <1>4, <1>7, <1>8, Zenon DEF Quotes
<1>10. \A i \in 1..Len(u) : \E x \in 1..Len(valid) : u[i].timeframe = valid[x].timeframe
  BY <1>1, <1>3
<1> QED
  BY <1>3, <1>9, <1>10, Zenon DEF u, kept, valid, firsts
-----------------------------------------------------------------------------
(* What the programs hold on their way from the exchange to the file.       *)

BarsOn(name)  == {bar \in Bars  : bar.timeframe = string_to_timeframe(name)}
FreshOn(name) == {bar \in Fresh : bar.timeframe = string_to_timeframe(name)}

(* The valid bars of an interval are of that interval, and so is what is    *)
(* left of them.                                                            *)
LEMMA CleanedOn ==
  ASSUME NEW name, NEW bars \in Seq(FreshOn(name))
  PROVE  deduplicate(clean_ohlcv_batch(bars)) \in Seq(BarsOn(name))
<1> DEFINE valid == Valid(bars)
           u == deduplicate(clean_ohlcv_batch(bars))
<1>1. bars \in Seq(Fresh)
  <2>1. FreshOn(name) \subseteq Fresh
    BY DEF FreshOn
  <2> QED
    BY <2>1, SeqMonotonic, Zenon
<1>2. valid \in Seq({bar \in FreshOn(name) : validate_ohlcv(bar)})
  BY ValidIs, ValidBars!ChosenType, Zenon
<1>3. /\ u \in Seq(Bars)
      /\ \A i \in 1..Len(u) : \E x \in 1..Len(valid) : u[i].timeframe = valid[x].timeframe
  BY <1>1, CleanedOnce, Zenon
<1> HIDE DEF valid, u
<1>4. \A x \in 1..Len(valid) : valid[x].timeframe = string_to_timeframe(name)
  <2> TAKE x \in 1..Len(valid)
  <2>1. valid[x] \in {bar \in FreshOn(name) : validate_ohlcv(bar)}
    BY <1>2, ElementOfSeq, Zenon
  <2> QED
    BY <2>1 DEF FreshOn
<1>5. \A i \in 1..Len(u) : u[i] \in BarsOn(name)
  <2> TAKE i \in 1..Len(u)
  <2>1. u[i] \in Bars
    BY <1>3, ElementOfSeq, Zenon
  <2> QED
    BY <1>3, <1>4, <2>1 DEF BarsOn
<1>6. u \in [1..Len(u) -> BarsOn(name)] /\ Len(u) \in Nat
  BY <1>3, <1>5
<1> QED
  BY <1>6 DEF u

(* The two tables of names are inverse to each other.                       *)
LEMMA LabelIsInterval ==
  ASSUME NEW name
  PROVE  timeframe_to_string[string_to_timeframe(name)]
         = IF name \in NamedIntervals THEN name ELSE "1m"
<1>1. /\ timeframe_to_string["TICK"] = "tick" /\ timeframe_to_string["SECOND_1"] = "1s"
      /\ timeframe_to_string["MINUTE_1"] = "1m" /\ timeframe_to_string["MINUTE_5"] = "5m"
      /\ timeframe_to_string["MINUTE_15"] = "15m" /\ timeframe_to_string["MINUTE_30"] = "30m"
      /\ timeframe_to_string["HOUR_1"] = "1h" /\ timeframe_to_string["HOUR_4"] = "4h"
      /\ timeframe_to_string["DAY_1"] = "1d" /\ timeframe_to_string["WEEK_1"] = "1w"
      /\ timeframe_to_string["MONTH_1"] = "1M"
  BY DEF timeframe_to_string
<1>2. CASE name \in NamedIntervals
  <2> USE <1>1 DEF string_to_timeframe
  <2>1. CASE name = "tick"
    BY <2>1, <1>2
  <2>2. CASE name = "1s"
    BY <2>2, <1>2
  <2>3. CASE name = "1m"
    BY <2>3, <1>2
  <2>4. CASE name = "5m"
    BY <2>4, <1>2
  <2>5. CASE name = "15m"
    BY <2>5, <1>2
  <2>6. CASE name = "30m"
    BY <2>6, <1>2
  <2>7. CASE name = "1h"
    BY <2>7, <1>2
  <2>8. CASE name = "4h"
    BY <2>8, <1>2
  <2>9. CASE name = "1d"
    BY <2>9, <1>2
  <2>10. CASE name = "1w"
    BY <2>10, <1>2
  <2>11. CASE name = "1M"
    BY <2>11, <1>2
  <2> QED
    BY <1>2, <2>1, <2>2, <2>3, <2>4, <2>5, <2>6, <2>7, <2>8, <2>9, <2>10, <2>11
       DEF NamedIntervals
<1>3. CASE name \notin NamedIntervals
  <2>1. string_to_timeframe(name) = "MINUTE_1"
    BY <1>3 DEF string_to_timeframe, NamedIntervals
  <2> QED
    BY <1>1, <1>3, <2>1
<1> QED
  BY <1>2, <1>3

(* A parsed answer is bars of the interval the program names.               *)
LEMMA KlinesAreBars ==
  ASSUME NEW asked \in Asked, NEW r \in Answers[asked], NEW setup \in Setups,
         NEW p \in Procs
  PROVE  get_klines(r, "BTCUSDT", setup.interval[p]).data
           \in Seq(FreshOn(setup.interval[p]))
<1> DEFINE name == setup.interval[p]
           items == items_of(r.body)
           res == get_klines(r, "BTCUSDT", name)
<1>1. <<>> \in Seq(FreshOn(name))
  OBVIOUS
<1>2. CASE \E i \in DOMAIN items : items[i] = Malformed
  <2>1. res = Err("PARSE_ERROR")
    <3> HIDE DEF items
    <3> QED
      BY <1>2 DEF get_klines, items
  <2>2. res.data = <<>>
    <3> HIDE DEF res
    <3> QED
      BY <2>1 DEF Err
  <2> QED
    BY <1>1, <2>2, Zenon DEF res
<1>3. CASE ~ \E i \in DOMAIN items : items[i] = Malformed
  <2> HIDE DEF name
  <2>1. res.data = [i \in DOMAIN items |-> bar_of(items[i], "BTCUSDT", name)]
    <3> HIDE DEF items
    <3> QED
      BY <1>3 DEF get_klines, Ok, items
  <2>2. CASE r.body.kind = "array"
    <3>1. items = r.body.items /\ items \in Seq(ExchangeCandles \cup {Malformed})
      BY <2>2, AnswersAssumption DEF items_of
    <3> HIDE DEF items
    <3>2. DOMAIN items = 1..Len(items) /\ Len(items) \in Nat
      BY <3>1
    <3>3. ASSUME NEW i \in DOMAIN items
          PROVE  bar_of(items[i], "BTCUSDT", name) \in FreshOn(name)
      <4>1. items[i] \in ToSet(r.body.items) \ {Malformed}
        BY <1>3, <3>1, Zenon DEF ToSet
      <4>2. r \in {a \in UNION {Answers[q] : q \in Asked} : a.body.kind = "array"}
        BY <2>2
      <4>3. bar_of(items[i], "BTCUSDT", name) \in BarsOf(name)
        BY <4>1, <4>2, Zenon DEF BarsOf
      <4>4. bar_of(items[i], "BTCUSDT", name) \in Bars
        BY <4>3, NamesAssumption DEF name
      <4> QED
        BY <4>4 DEF bar_of, FreshOn, Fresh
    <3>4. res.data \in [1..Len(items) -> FreshOn(name)]
      <4> HIDE DEF res
      <4> QED
        BY <2>1, <3>2, <3>3
    <3> HIDE DEF res
    <3> QED
      BY <3>2, <3>4 DEF res, name
  <2>3. CASE r.body.kind # "array"
    <3>1. items = <<>> \/ items = <<Malformed>>
      BY <2>3 DEF items_of
    <3>2. items # <<Malformed>>
      <4>1. 1 \in DOMAIN <<Malformed>> /\ <<Malformed>>[1] = Malformed
        OBVIOUS
      <4> HIDE DEF items
      <4> QED
        BY <1>3, <4>1
    <3> HIDE DEF items, res
    <3>3. DOMAIN items = 1..0
      BY <3>1, <3>2
    <3>4. res.data = <<>>
      BY <2>1, <3>3
    <3> QED
      BY <1>1, <3>4 DEF res, name
  <2> QED
    BY <2>2, <2>3
<1> HIDE DEF items
<1> QED
  BY <1>2, <1>3
-----------------------------------------------------------------------------
(* A process acts on its own memory only.                                   *)

Act(p) ==
  \/ start(p) \/ exchange_answers(p) \/ connection_breaks(p) \/ disk_full(p) \/ crash(p)
  \/ step(p)

Memories ==
  /\ at = [p \in Procs |-> at[p]] /\ target = [p \in Procs |-> target[p]]
  /\ found = [p \in Procs |-> found[p]] /\ unsaved = [p \in Procs |-> unsaved[p]]
  /\ saved = [p \in Procs |-> saved[p]] /\ config = [p \in Procs |-> config[p]]
  /\ query = [p \in Procs |-> query[p]] /\ reply = [p \in Procs |-> reply[p]]
  /\ result = [p \in Procs |-> result[p]]

LocalTo(p) ==
  /\ at' = [at EXCEPT ![p] = at'[p]] /\ target' = [target EXCEPT ![p] = target'[p]]
  /\ found' = [found EXCEPT ![p] = found'[p]]
  /\ unsaved' = [unsaved EXCEPT ![p] = unsaved'[p]]
  /\ saved' = [saved EXCEPT ![p] = saved'[p]]
  /\ config' = [config EXCEPT ![p] = config'[p]]
  /\ query' = [query EXCEPT ![p] = query'[p]] /\ reply' = [reply EXCEPT ![p] = reply'[p]]
  /\ result' = [result EXCEPT ![p] = result'[p]]
  /\ UNCHANGED <<config_file, program, interval>>

LEMMA ActsLocally == ASSUME Memories, NEW p \in Procs, Act(p) PROVE LocalTo(p)
<1> USE DEF Memories, LocalTo, goto
<1>1. CASE start(p)
  BY <1>1 DEF start
<1>2. CASE exchange_answers(p)
  BY <1>2 DEF exchange_answers, outside_storage
<1>3. CASE connection_breaks(p) \/ request_times_out(p) \/ refuse_url(p) \/ parse(p)
  BY <1>3 DEF connection_breaks, request_times_out, refuse_url, parse, finish_request,
              outside_storage
<1>4. CASE disk_full(p)
  BY <1>4 DEF disk_full, write_fails, collector_vars
<1>5. CASE crash(p) \/ exit(p)
  BY <1>5 DEF crash, exit, leave, forget
<1>6. CASE load_config(p) \/ load_config_fails(p)
  BY <1>6 DEF load_config, load_config_fails, outside_storage
<1>7. CASE send_request(p) \/ give_up(p) \/ ask_for_book(p)
  BY <1>7 DEF send_request, give_up, ask_for_book, outside_storage
<1>8. CASE save_collected(p) \/ save_cleaned(p)
  BY <1>8 DEF save_collected, save_cleaned, construct_storage, collector_vars
<1>9. CASE save(p)
  BY <1>9 DEF save, save_ohlcv, save_check, save_open, save_returns_false, save_header,
              save_row, save_returns_true, collector_vars
<1> QED
  BY <1>1, <1>2, <1>3, <1>4, <1>5, <1>6, <1>7, <1>8, <1>9 DEF Act, step

LEMMA MemoriesStay == ASSUME Memories, NEW p \in Procs, LocalTo(p) PROVE Memories'
BY DEF Memories, LocalTo

LEMMA OthersStay ==
  ASSUME Memories, NEW p \in Procs, LocalTo(p), NEW q \in Procs, q # p
  PROVE  /\ at'[q] = at[q] /\ target'[q] = target[q] /\ found'[q] = found[q]
         /\ unsaved'[q] = unsaved[q] /\ saved'[q] = saved[q] /\ config'[q] = config[q]
         /\ query'[q] = query[q] /\ reply'[q] = reply[q] /\ result'[q] = result[q]
         /\ config_file' = config_file /\ program' = program /\ interval' = interval
BY DEF Memories, LocalTo

Setting ==
  \E setup \in Setups :
    config_file = setup.file /\ program = setup.program /\ interval = setup.interval

(* A program that collects holds a configuration of its file, the answer it *)
(* parses is one to its question, the klines it got are bars of its         *)
(* interval, and the batch it is about to save is theirs.                   *)
Holds(p) ==
  /\ (at[p] \in Fetching /\ Collects(p)) =>
       load(config_file) /\ config[p] \in get_binance_config(config_file)
  /\ at[p] = "parse" => reply[p] \in Answers[<<program[p], query[p]>>]
  /\ (at[p] = "result" /\ query[p] = "klines") =>
       result[p].data \in Seq(FreshOn(interval[p]))
  /\ (at[p] = "check" /\ program[p] = "clean") =>
       /\ result[p].data \in Seq(FreshOn(interval[p]))
       /\ unsaved[p] = deduplicate(clean_ohlcv_batch(result[p].data))

Held == Memories /\ Setting /\ Answered /\ \A p \in Procs : Holds(p)

LEMMA InitHeld == Init => Held
<1> SUFFICES ASSUME Init PROVE Held
  OBVIOUS
<1>1. Memories
  BY DEF Init, StorageInit, Memories
<1>2. Setting
  BY DEF Init, Setting
<1>3. \A p \in Procs : at[p] = "idle"
  BY DEF Init
<1>4. \A p \in Procs : Holds(p)
  BY <1>3 DEF Holds, Fetching
<1> QED
  BY <1>1, <1>2, <1>4, InitAnswered DEF Held

(* A program that moves on with what it holds.                              *)
LEMMA MoveHolds ==
  ASSUME Held, NEW p \in Procs, LocalTo(p),
         at'[p] \notin {"parse", "result", "check"},
         at'[p] \in Fetching => at[p] \in Fetching /\ config'[p] = config[p]
  PROVE  Holds(p)'
BY DEF Held, Holds, LocalTo, Collects

LEMMA ErrorIsEmpty == \A code, S : Err(code).data \in Seq(S)
BY DEF Err

LEMMA ActHolds == ASSUME Held, NEW p \in Procs, Act(p) PROVE Holds(p)'
<1>0. LocalTo(p) /\ Memories /\ Answered /\ Holds(p)
  BY ActsLocally DEF Held
<1>1. UNCHANGED <<config_file, program, interval>>
  BY <1>0 DEF LocalTo
<1>2. CASE start(p)
  <2>1. at'[p] = "load"
    BY <1>0, <1>2 DEF start, goto, Memories
  <2> QED
    BY <1>0, <2>1, MoveHolds DEF Fetching
<1>3. CASE crash(p) \/ exit(p)
  <2>1. at'[p] = "idle"
    BY <1>0, <1>3 DEF crash, exit, leave, goto, Memories
  <2> QED
    BY <1>0, <2>1, MoveHolds DEF Fetching
<1>4. CASE disk_full(p) \/ save(p)
  <2>1. at'[p] \in {"open", "header", "rows", "exit"}
    BY <1>0, <1>4 DEF disk_full, write_fails, save, save_ohlcv, save_check, save_open,
       save_returns_false, save_header, save_row, save_returns_true, goto, Memories
  <2> QED
    BY <1>0, <2>1, MoveHolds DEF Fetching
<1>5. CASE send_request(p) \/ give_up(p) \/ ask_for_book(p)
  <2>1. /\ at'[p] \in {"waiting", "exit", "request"} /\ at[p] \in Fetching
        /\ config' = config
    BY <1>0, <1>5
       DEF send_request, give_up, ask_for_book, goto, Memories, Fetching
  <2> QED
    BY <1>0, <2>1, MoveHolds
<1>6. CASE load_config(p)
  <2>1. PICK c \in get_binance_config(config_file) : config' = [config EXCEPT ![p] = c]
    BY <1>6 DEF load_config
  <2>2. at'[p] = "request" /\ config'[p] = c /\ load(config_file)
    BY <1>0, <1>6, <2>1 DEF load_config, goto, Memories
  <2> QED
    BY <1>1, <2>2 DEF Holds
<1>7. CASE load_config_fails(p)
  <2>1. program[p] = "strategy" \/ at'[p] = "exit"
    BY <1>0, <1>7 DEF load_config_fails, goto, Memories
  <2>2. at'[p] \in {"request", "exit"}
    BY <1>0, <1>7 DEF load_config_fails, goto, Memories
  <2> QED
    BY <1>1, <2>1, <2>2 DEF Holds, Collects, Fetching
<1>8. CASE exchange_answers(p)
  <2>1. /\ at[p] = "waiting" /\ at'[p] = "parse"
        /\ reply'[p] \in Answers[<<program[p], query[p]>>]
        /\ UNCHANGED <<config, query>>
    BY <1>0, <1>8 DEF exchange_answers, goto, outside_storage, Memories
  <2> QED
    BY <1>0, <1>1, <2>1 DEF Holds, Collects, Fetching
<1>9. CASE connection_breaks(p) \/ request_times_out(p) \/ refuse_url(p)
  <2>1. PICK code : result' = [result EXCEPT ![p] = Err(code)]
    BY <1>9 DEF connection_breaks, request_times_out, refuse_url, finish_request
  <2>2. at[p] \in Fetching /\ at'[p] = "result" /\ UNCHANGED <<config, query>>
    BY <1>0, <1>9 DEF connection_breaks, request_times_out, refuse_url, finish_request,
       outside_storage, goto, Memories, Fetching
  <2>3. result'[p] = Err(code)
    BY <1>0, <2>1 DEF Memories
  <2> QED
    BY <1>0, <1>1, <2>2, <2>3, ErrorIsEmpty DEF Holds, Collects, Fetching
<1>10. CASE parse(p)
  <2>1. /\ at[p] = "parse" /\ at'[p] = "result" /\ UNCHANGED <<config, query>>
    BY <1>0, <1>10 DEF parse, finish_request, outside_storage, goto, Memories
  <2>2. query[p] = "klines" => result'[p] = get_klines(reply[p], "BTCUSDT", interval[p])
    BY <1>0, <1>10 DEF parse, finish_request, http_get, Ok, Memories
  <2>3. /\ reply[p] \in Answers[<<program[p], query[p]>>]
        /\ <<program[p], query[p]>> \in Asked
    BY <1>0, <2>1 DEF Holds, Answered, Fetching
  <2>4. PICK setup \in Setups : interval = setup.interval
    BY DEF Held, Setting
  <2>5. query[p] = "klines" => result'[p].data \in Seq(FreshOn(interval[p]))
    BY <2>2, <2>3, <2>4, KlinesAreBars
  <2> QED
    BY <1>0, <1>1, <2>1, <2>5 DEF Holds, Collects, Fetching
<1>11. CASE save_collected(p) \/ save_cleaned(p)
  <2>1. /\ at[p] = "result" /\ at'[p] = "check" /\ UNCHANGED result
        /\ program[p] = "clean" =>
             unsaved'[p] = deduplicate(clean_ohlcv_batch(result[p].data))
    BY <1>0, <1>11 DEF save_collected, save_cleaned, construct_storage, goto, Memories,
       collector_vars
  <2>2. program[p] \in {"collect", "clean"}
    BY <1>11 DEF save_collected, save_cleaned
  <2>3. query[p] = "klines"
    <3>1. <<program[p], query[p]>> \in Asked
      BY <1>0, <2>1 DEF Answered, Fetching
    <3> QED
      BY <2>2, <3>1 DEF Asked
  <2> QED
    BY <1>0, <1>1, <2>1, <2>3 DEF Holds, Fetching
<1> QED
  BY <1>2, <1>3, <1>4, <1>5, <1>6, <1>7, <1>8, <1>9, <1>10, <1>11 DEF Act, step

LEMMA OtherHolds ==
  ASSUME Held, NEW p \in Procs, Act(p), NEW q \in Procs, q # p
  PROVE  Holds(q)'
<1>1. Holds(q) /\ Memories /\ LocalTo(p)
  BY ActsLocally DEF Held
<1>2. /\ at'[q] = at[q] /\ unsaved'[q] = unsaved[q] /\ config'[q] = config[q]
      /\ query'[q] = query[q] /\ reply'[q] = reply[q] /\ result'[q] = result[q]
      /\ config_file' = config_file /\ program' = program /\ interval' = interval
  BY <1>1, OthersStay
<1> QED
  BY <1>1, <1>2 DEF Holds, Collects

LEMMA NextIsAct == Next <=> \E p \in Procs : Act(p)
BY DEF Next, Act

LEMMA NextHeld == Held /\ [Next]_vars => Held'
<1> SUFFICES ASSUME Held, [Next]_vars PROVE Held'
  OBVIOUS
<1>1. Answered'
  BY NextAnswered DEF Held
<1>2. CASE UNCHANGED vars
  BY <1>1, <1>2 DEF vars, collector_vars, storage_vars, Held, Memories, Setting, Holds, Collects
<1>3. CASE Next
  <2>1. PICK p \in Procs : Act(p)
    BY <1>3, NextIsAct
  <2>2. Memories /\ LocalTo(p)
    BY <2>1, ActsLocally DEF Held
  <2>3. Memories'
    BY <2>2, MemoriesStay
  <2>4. Setting'
    BY <2>2 DEF Held, Setting, LocalTo
  <2>5. \A q \in Procs : Holds(q)'
    BY <2>1, ActHolds, OtherHolds
  <2> QED
    BY <1>1, <2>3, <2>4, <2>5 DEF Held
<1> QED
  BY <1>2, <1>3

LEMMA AlwaysHeld == Spec => []Held
BY InitHeld, NextHeld, PTL DEF Spec

(* The cleaner rejects what the normalizer would, and only the bars it      *)
(* keeps are what it compares the next with.                                *)
THEOREM RejectedBarsNeverTrace == Spec => []RejectedBarsLeaveNoTrace
<1>1. Held => RejectedBarsLeaveNoTrace
  <2> SUFFICES ASSUME Held, NEW p \in Procs
               PROVE  clean_ohlcv_batch(Fetched(p)) = MarkedAll(Valid(Fetched(p)))
    BY Zenon DEF RejectedBarsLeaveNoTrace, MarkedAll
  <2>1. Fetched(p) \in Seq(Fresh)
    <3>1. CASE at[p] = "result" /\ query[p] = "klines"
      <4>1. Fetched(p) \in Seq(FreshOn(interval[p])) /\ FreshOn(interval[p]) \subseteq Fresh
        BY <3>1 DEF Held, Holds, Fetched, FreshOn
      <4> QED
        BY <4>1, SeqMonotonic, Zenon
    <3>2. CASE ~(at[p] = "result" /\ query[p] = "klines")
      BY <3>2 DEF Fetched
    <3> QED
      BY <3>1, <3>2
  <2> QED
    BY <2>1, CleanBatch, Zenon
<1> QED
  BY <1>1, AlwaysHeld, PTL

(* What is saved has each candle once: duplicates go by time and symbol,    *)
(* and there is one symbol.                                                 *)
THEOREM CandlesAreSavedOnce == Spec => []EachCandleOnce
<1>1. Held => EachCandleOnce
  <2> SUFFICES ASSUME Held, NEW p \in Procs, at[p] = "check", program[p] = "clean"
               PROVE  LET valid == Valid(result[p].data)
                          first(i) == \A j \in 1..(i - 1) : valid[j].timestamp # valid[i].timestamp
                      IN  /\ \A i, j \in DOMAIN unsaved[p] :
                               i # j => unsaved[p][i].timestamp # unsaved[p][j].timestamp
                          /\ {Quoted(unsaved[p], i) : i \in DOMAIN unsaved[p]} =
                               {Quoted(valid, i) : i \in {k \in DOMAIN valid : first(k)}}
    BY Zenon DEF EachCandleOnce
  <2> DEFINE bars == result[p].data
  <2>1. /\ bars \in Seq(FreshOn(interval[p])) /\ FreshOn(interval[p]) \subseteq Fresh
        /\ unsaved[p] = deduplicate(clean_ohlcv_batch(bars))
    BY DEF Held, Holds, FreshOn
  <2>2. bars \in Seq(Fresh)
    BY <2>1, SeqMonotonic, Zenon
  <2>3. /\ unsaved[p] \in Seq(Bars) /\ Distinct(unsaved[p])
        /\ {Quoted(unsaved[p], i) : i \in DOMAIN unsaved[p]}
           = {Quoted(Valid(bars), i) : i \in {k \in DOMAIN Valid(bars) : FirstAt(Valid(bars), k)}}
    BY <2>1, <2>2, CleanedOnce, Zenon
  <2>4. DOMAIN unsaved[p] = 1..Len(unsaved[p])
    BY <2>3
  <2> QED
    BY <2>3, <2>4, Zenon DEF Distinct, FirstAt
<1> QED
  BY <1>1, AlwaysHeld, PTL
-----------------------------------------------------------------------------
(* What a file may hold: rows of its interval, beside headers and damage.   *)
LinesOf(path) ==
  {Header, Torn, Garbled} \cup {Row(bar) : bar \in BarsOn(path.interval)}

Files ==
  /\ files = [path \in Paths |-> files[path]]
  /\ \A path \in Paths : files[path] \in Seq(LinesOf(path))
  /\ present \subseteq Paths /\ spoiled \subseteq Paths
  /\ faults \in 0..MaxFaults /\ starts \in 0..MaxStarts

(* What a program has still to write are bars of the interval of the file   *)
(* it writes to, and it is told that they are saved only at its end.        *)
Batch(p) ==
  /\ at[p] \in Places /\ found[p] \in BOOLEAN /\ saved[p] \in BOOLEAN
  /\ \/ target[p] = NoPath /\ unsaved[p] = <<>> /\ at[p] \notin Storing
     \/ target[p] \in Paths /\ unsaved[p] \in Seq(BarsOn(target[p].interval))
  /\ saved[p] => at[p] = "exit"

Stored == Held /\ Files /\ \A p \in Procs : Batch(p)

LEMMA WithLineOf ==
  ASSUME NEW L, Torn \in L, Garbled \in L, NEW lines \in Seq(L), NEW line \in L
  PROVE  with_line(lines, line) \in Seq(L)
<1>1. CASE lines # <<>> /\ lines[Len(lines)] = Torn
  <2> DEFINE last == IF line = Torn THEN Torn ELSE Garbled
  <2>1. last \in L
    OBVIOUS
  <2> HIDE DEF last
  <2>2. [lines EXCEPT ![Len(lines)] = last] \in Seq(L)
    BY <1>1, <2>1
  <2> QED
    BY <1>1, <2>2 DEF with_line, last
<1>2. CASE ~(lines # <<>> /\ lines[Len(lines)] = Torn)
  BY <1>2 DEF with_line
<1> QED
  BY <1>1, <1>2

LEMMA WriteStays ==
  ASSUME Files, NEW path \in Paths, NEW line \in LinesOf(path), write(path, line)
  PROVE  /\ files' = [path2 \in Paths |-> files'[path2]]
         /\ \A path2 \in Paths : files'[path2] \in Seq(LinesOf(path2))
<1>1. Torn \in LinesOf(path) /\ Garbled \in LinesOf(path)
  BY DEF LinesOf
<1>2. files[path] \in Seq(LinesOf(path))
  BY DEF Files
<1>3. with_line(files[path], line) \in Seq(LinesOf(path))
  BY <1>1, <1>2, WithLineOf, Zenon
<1>4. files' = [files EXCEPT ![path] = with_line(files[path], line)]
  BY DEF write
<1> HIDE DEF write
<1>5. /\ files' = [path2 \in Paths |-> files'[path2]]
      /\ \A path2 \in Paths :
           files'[path2] = IF path2 = path THEN with_line(files[path], line) ELSE files[path2]
  BY <1>4 DEF Files
<1> QED
  BY <1>3, <1>5 DEF Files

LEMMA InitStored == Init => Stored
<1> SUFFICES ASSUME Init PROVE Stored
  OBVIOUS
<1>1. Files
  <2>1. \A path \in Paths : files[path] = <<>>
    BY DEF Init, StorageInit
  <2>2. \A path \in Paths : files[path] \in Seq(LinesOf(path))
    <3>1. \A path \in Paths : <<>> \in Seq(LinesOf(path))
      OBVIOUS
    <3> QED
      BY <2>1, <3>1, Zenon
  <2>3. files = [path \in Paths |-> files[path]]
    BY DEF Init, StorageInit
  <2>4. present = {} /\ spoiled = {} /\ faults = 0 /\ starts = 0
    BY DEF Init, StorageInit
  <2>5. faults \in 0..MaxFaults /\ starts \in 0..MaxStarts
    BY <2>4, BoundsAssumption
  <2> QED
    BY <2>2, <2>3, <2>4, <2>5 DEF Files
<1>2. ASSUME NEW p \in Procs PROVE Batch(p)
  BY DEF Init, StorageInit, Batch, Places, Storing
<1> QED
  BY <1>1, <1>2, InitHeld DEF Stored

(* The path a program saves to, and the bars it saves there.                *)
LEMMA SavesItsInterval ==
  ASSUME Stored, NEW p \in Procs, save_collected(p) \/ save_cleaned(p)
  PROVE  /\ target'[p] \in Paths /\ unsaved'[p] \in Seq(BarsOn(target'[p].interval))
         /\ at[p] = "result" /\ at'[p] = "check"
<1>1. /\ Memories /\ Holds(p) /\ Answered
      /\ at[p] = "result" /\ program[p] \in {"collect", "clean"}
  BY DEF Stored, Held, save_collected, save_cleaned
<1>2. query[p] = "klines"
  <2>1. <<program[p], query[p]>> \in Asked
    BY <1>1 DEF Answered, Fetching
  <2> QED
    BY <1>1, <2>1 DEF Asked
<1>3. result[p].data \in Seq(FreshOn(interval[p]))
  BY <1>1, <1>2 DEF Holds
<1>4. PICK setup \in Setups :
        config_file = setup.file /\ program = setup.program /\ interval = setup.interval
  BY DEF Stored, Held, Setting
<1>5. load(setup.file) /\ config[p] \in get_binance_config(setup.file)
  BY <1>1, <1>4 DEF Holds, Fetching, Collects
<1>6. \A symbol \in {"BTCUSDT", "BTCUSDT_cleaned"} :
        path_of(p, symbol) \in Paths /\ path_of(p, symbol).interval = interval[p]
  <2> TAKE symbol \in {"BTCUSDT", "BTCUSDT_cleaned"}
  <2>1. path_of(p, symbol) \in PathsOf(setup.file, setup.interval[p])
    BY <1>4, <1>5 DEF path_of, PathsOf
  <2>2. PathsOf(setup.file, setup.interval[p]) \subseteq Paths
    BY <1>5, NamesAssumption
  <2> QED
    BY <2>1, <2>2 DEF path_of
<1>7. result[p].data \in Seq(BarsOn(interval[p]))
  <2>1. FreshOn(interval[p]) \subseteq BarsOn(interval[p])
    BY DEF FreshOn, BarsOn, Fresh
  <2> QED
    BY <1>3, <2>1, SeqMonotonic, Zenon
<1>8. deduplicate(clean_ohlcv_batch(result[p].data)) \in Seq(BarsOn(interval[p]))
  BY <1>3, CleanedOn, Zenon
<1>9. CASE save_collected(p)
  <2>1. /\ target'[p] = path_of(p, "BTCUSDT") /\ unsaved'[p] = result[p].data
        /\ at'[p] = "check"
    BY <1>1, <1>9 DEF save_collected, construct_storage, goto, Memories
  <2> QED
    BY <1>1, <1>6, <1>7, <2>1
<1>10. CASE save_cleaned(p)
  <2>1. /\ target'[p] = path_of(p, "BTCUSDT_cleaned")
        /\ unsaved'[p] = deduplicate(clean_ohlcv_batch(result[p].data))
        /\ at'[p] = "check"
    BY <1>1, <1>10 DEF save_cleaned, construct_storage, goto, Memories
  <2> QED
    BY <1>1, <1>6, <1>8, <2>1
<1> QED
  BY <1>9, <1>10

(* A step that leaves the files alone.                                      *)
LEMMA FilesStay ==
  ASSUME Files, UNCHANGED <<files, present, faults, starts, spoiled>>
  PROVE  Files'
BY DEF Files

(* A step of the part of a program that asks the exchange.                  *)
Asking(p) ==
  \/ exchange_answers(p) \/ connection_breaks(p) \/ load_config(p) \/ load_config_fails(p)
  \/ send_request(p) \/ refuse_url(p) \/ request_times_out(p) \/ parse(p)
  \/ give_up(p) \/ ask_for_book(p)

LEMMA AskingMoves ==
  ASSUME Stored, NEW p \in Procs, Asking(p)
  PROVE  /\ UNCHANGED storage_vars \/ UNCHANGED <<files, present, dirs, target, found,
                                                  unsaved, saved, faults, spoiled>>
         /\ UNCHANGED starts
         /\ at[p] \notin Storing \cup {"exit"} /\ at'[p] \in Places \ Storing
<1>1. Memories
  BY DEF Stored, Held
<1> USE <1>1 DEF Memories, goto, outside_storage, Places, Storing
<1>2. CASE exchange_answers(p)
  BY <1>2 DEF exchange_answers
<1>3. CASE connection_breaks(p) \/ request_times_out(p) \/ refuse_url(p) \/ parse(p)
  BY <1>3 DEF connection_breaks, request_times_out, refuse_url, parse, finish_request
<1>4. CASE load_config(p) \/ load_config_fails(p)
  BY <1>4 DEF load_config, load_config_fails
<1>5. CASE send_request(p) \/ give_up(p) \/ ask_for_book(p)
  BY <1>5 DEF send_request, give_up, ask_for_book
<1> QED
  BY <1>2, <1>3, <1>4, <1>5 DEF Asking

LEMMA ActIs ==
  ASSUME NEW p \in Procs, Act(p)
  PROVE  \/ Asking(p) \/ start(p) \/ save_collected(p) \/ save_cleaned(p)
         \/ disk_full(p) \/ save(p) \/ crash(p) \/ exit(p)
BY DEF Act, step, Asking

LEMMA FilesKept == ASSUME Stored, NEW p \in Procs, Act(p) PROVE Files'
<1>0. Files /\ Batch(p) /\ Memories
  BY DEF Stored, Held
<1>1. CASE Asking(p)
  <2>1. UNCHANGED <<files, present, faults, starts, spoiled>>
    BY <1>1, AskingMoves DEF storage_vars
  <2> QED
    BY <1>0, <2>1, FilesStay
<1>2. CASE start(p)
  BY <1>0, <1>2, BoundsAssumption DEF start, Files
<1>3. CASE save_collected(p) \/ save_cleaned(p)
  <2>1. UNCHANGED <<files, present, faults, starts, spoiled>>
    BY <1>3 DEF save_collected, save_cleaned, construct_storage, collector_vars
  <2> QED
    BY <1>0, <2>1, FilesStay
<1>4. ASSUME at[p] \in Storing
      PROVE  /\ target[p] \in Paths /\ Torn \in LinesOf(target[p])
             /\ Header \in LinesOf(target[p])
  BY <1>0, <1>4 DEF Batch, LinesOf
<1>5. CASE disk_full(p)
  <2>1. at[p] \in Storing /\ (files' = files \/ write(target[p], Torn))
        /\ faults' \in 0..MaxFaults /\ UNCHANGED <<present, starts>>
        /\ spoiled' \subseteq spoiled \cup {target[p]}
    BY <1>0, <1>5, BoundsAssumption
       DEF disk_full, write_fails, Storing, collector_vars, Files
  <2>2. /\ files' = [path2 \in Paths |-> files'[path2]]
        /\ \A path2 \in Paths : files'[path2] \in Seq(LinesOf(path2))
    <3>1. CASE files' = files
      BY <1>0, <3>1 DEF Files
    <3>2. CASE write(target[p], Torn)
      BY <1>0, <1>4, <2>1, <3>2, WriteStays
    <3> QED
      BY <2>1, <3>1, <3>2
  <2> QED
    BY <1>0, <1>4, <2>1, <2>2 DEF Files
<1>6. CASE save(p)
  <2>0. UNCHANGED starts
    BY <1>6 DEF save, collector_vars
  <2>1. CASE save_check(p) \/ save_open(p) \/ save_returns_false(p) \/ save_returns_true(p)
    <3>1. /\ UNCHANGED <<files, faults>> /\ present' \subseteq present \cup {target[p]}
          /\ spoiled' \subseteq spoiled \cup {target[p]} /\ at[p] \in Storing
      BY <2>1 DEF save_check, save_open, save_returns_false, save_returns_true, Storing
    <3> QED
      BY <1>0, <1>4, <2>0, <3>1 DEF Files
  <2>2. CASE save_header(p)
    <3>1. at[p] \in Storing /\ write(target[p], Header) /\ UNCHANGED <<present, faults, spoiled>>
      BY <2>2 DEF save_header, Storing
    <3>2. /\ files' = [path2 \in Paths |-> files'[path2]]
          /\ \A path2 \in Paths : files'[path2] \in Seq(LinesOf(path2))
      BY <1>0, <1>4, <3>1, WriteStays
    <3> QED
      BY <1>0, <2>0, <3>1, <3>2 DEF Files
  <2>3. CASE save_row(p)
    <3>1. /\ at[p] \in Storing /\ write(target[p], Row(Head(unsaved[p])))
          /\ unsaved[p] # <<>> /\ UNCHANGED <<present, faults, spoiled>>
      BY <2>3 DEF save_row, Storing
    <3>2. unsaved[p] \in Seq(BarsOn(target[p].interval))
      BY <1>0, <3>1 DEF Batch
    <3>3. Head(unsaved[p]) \in BarsOn(target[p].interval)
      BY <3>1, <3>2
    <3>4. Row(Head(unsaved[p])) \in LinesOf(target[p])
      BY <3>3, Zenon DEF LinesOf
    <3>5. /\ files' = [path2 \in Paths |-> files'[path2]]
          /\ \A path2 \in Paths : files'[path2] \in Seq(LinesOf(path2))
      BY <1>0, <1>4, <3>1, <3>4, WriteStays
    <3> QED
      BY <1>0, <2>0, <3>1, <3>5 DEF Files
  <2> QED
    BY <1>6, <2>1, <2>2, <2>3 DEF save, save_ohlcv
<1>7. CASE crash(p) \/ exit(p)
  <2>1. UNCHANGED <<files, present, starts>> /\ leave(p)
    BY <1>7 DEF crash, exit, leave, forget
  <2>2. spoiled' = spoiled \/ (at[p] \in Storing /\ spoiled' = spoiled \cup {target[p]})
    BY <2>1, Zenon DEF leave, Storing
  <2>3. faults' \in 0..MaxFaults
    BY <1>0, <1>7, BoundsAssumption DEF crash, exit, Files
  <2> QED
    BY <1>0, <1>4, <2>1, <2>2, <2>3 DEF Files
<1> QED
  BY <1>1, <1>2, <1>3, <1>5, <1>6, <1>7, ActIs

LEMMA BatchKept == ASSUME Stored, NEW p \in Procs, Act(p) PROVE Batch(p)'
<1>0. Files /\ Batch(p) /\ Memories
  BY DEF Stored, Held
<1>1. CASE Asking(p)
  <2>1. /\ UNCHANGED <<target, found, unsaved, saved>>
        /\ at[p] \notin Storing \cup {"exit"} /\ at'[p] \in Places \ Storing
    BY <1>1, AskingMoves DEF storage_vars
  <2> QED
    BY <1>0, <2>1 DEF Batch
<1>2. CASE start(p)
  <2>1. /\ UNCHANGED <<target, found, unsaved, saved>>
        /\ at[p] = "idle" /\ at'[p] = "load"
    BY <1>0, <1>2 DEF start, goto, Memories
  <2> QED
    BY <1>0, <2>1 DEF Batch, Places, Storing
<1>3. CASE save_collected(p) \/ save_cleaned(p)
  <2>1. UNCHANGED <<found, saved>>
    BY <1>3 DEF save_collected, save_cleaned, construct_storage
  <2>2. /\ target'[p] \in Paths /\ unsaved'[p] \in Seq(BarsOn(target'[p].interval))
        /\ at[p] = "result" /\ at'[p] = "check"
    BY <1>3, SavesItsInterval
  <2> QED
    BY <1>0, <2>1, <2>2 DEF Batch, Places
<1>4. CASE disk_full(p)
  <2>1. /\ at[p] \in Storing /\ at'[p] = "rows" /\ unsaved'[p] = <<>>
        /\ UNCHANGED <<target, found, saved>> /\ at[p] # "exit"
    BY <1>0, <1>4 DEF disk_full, write_fails, goto, Memories, Storing
  <2>2. <<>> \in Seq(BarsOn(target[p].interval))
    OBVIOUS
  <2> QED
    BY <1>0, <2>1, <2>2 DEF Batch, Places
<1>5. CASE save(p)
  <2>1. CASE save_check(p) \/ save_open(p) \/ save_returns_false(p) \/ save_returns_true(p)
    <3>1. /\ at[p] \in Storing /\ at[p] # "exit" /\ UNCHANGED <<target, unsaved>>
          /\ at'[p] \in {"open", "rows", "header", "exit"}
      BY <1>0, <2>1 DEF save_check, save_open, save_returns_false, save_returns_true,
         goto, Memories, Storing
    <3>2. UNCHANGED found \/ found'[p] = (target[p] \in present)
      BY <1>0, <2>1 DEF save_check, save_open, save_returns_false, save_returns_true, Memories
    <3>3. UNCHANGED saved \/ (saved'[p] = TRUE /\ at'[p] = "exit")
      BY <1>0, <2>1 DEF save_check, save_open, save_returns_false, save_returns_true,
         goto, Memories
    <3>4. found'[p] \in BOOLEAN /\ saved'[p] \in BOOLEAN /\ (saved'[p] => at'[p] = "exit")
      <4>1. found[p] \in BOOLEAN /\ saved[p] \in BOOLEAN /\ ~saved[p]
        BY <1>0, <3>1 DEF Batch
      <4>2. (target[p] \in present) \in BOOLEAN
        OBVIOUS
      <4>3. found'[p] \in BOOLEAN
        BY <3>2, <4>1, <4>2, Zenon
      <4> QED
        BY <3>3, <4>1, <4>3, Zenon
    <3> QED
      BY <1>0, <3>1, <3>4 DEF Batch, Places
  <2>2. CASE save_header(p)
    <3>1. /\ at[p] = "header" /\ at'[p] = "rows" /\ UNCHANGED <<target, unsaved, found, saved>>
      BY <1>0, <2>2 DEF save_header, goto, Memories
    <3> QED
      BY <1>0, <3>1 DEF Batch, Places, Storing
  <2>3. CASE save_row(p)
    <3>1. /\ at[p] = "rows" /\ UNCHANGED <<at, target, found, saved>>
          /\ unsaved[p] # <<>> /\ unsaved'[p] = Tail(unsaved[p])
      BY <1>0, <2>3 DEF save_row, Memories
    <3>2. unsaved[p] \in Seq(BarsOn(target[p].interval))
      BY <1>0, <3>1 DEF Batch, Storing
    <3>3. unsaved'[p] \in Seq(BarsOn(target[p].interval))
      BY <3>1, <3>2, HeadTailProperties
    <3> QED
      BY <1>0, <3>1, <3>3 DEF Batch, Storing
  <2> QED
    BY <1>5, <2>1, <2>2, <2>3 DEF save, save_ohlcv
<1>6. CASE crash(p) \/ exit(p)
  <2>1. /\ at'[p] = "idle" /\ target'[p] = NoPath /\ unsaved'[p] = <<>>
        /\ found'[p] = FALSE /\ saved'[p] = FALSE
    BY <1>0, <1>6 DEF crash, exit, leave, goto, Memories
  <2> QED
    BY <2>1 DEF Batch, Places, Storing
<1> QED
  BY <1>1, <1>2, <1>3, <1>4, <1>5, <1>6, ActIs

LEMMA NextStored == Stored /\ [Next]_vars => Stored'
<1> SUFFICES ASSUME Stored, [Next]_vars PROVE Stored'
  OBVIOUS
<1>1. Held'
  BY NextHeld DEF Stored
<1>2. CASE UNCHANGED vars
  BY <1>1, <1>2 DEF vars, collector_vars, storage_vars, Stored, Files, Batch
<1>3. CASE Next
  <2>1. PICK p \in Procs : Act(p)
    BY <1>3, NextIsAct
  <2>2. Memories /\ LocalTo(p)
    BY <2>1, ActsLocally DEF Stored, Held
  <2>3. Files'
    BY <2>1, FilesKept
  <2>4. Batch(p)'
    BY <2>1, BatchKept
  <2>5. ASSUME NEW q \in Procs, q # p PROVE Batch(q)'
    <3>1. /\ at'[q] = at[q] /\ target'[q] = target[q] /\ found'[q] = found[q]
          /\ unsaved'[q] = unsaved[q] /\ saved'[q] = saved[q]
      BY <2>2, <2>5, OthersStay
    <3>2. Batch(q)
      BY DEF Stored
    <3> QED
      BY <3>1, <3>2 DEF Batch
  <2> QED
    BY <1>1, <2>3, <2>4, <2>5 DEF Stored
<1> QED
  BY <1>2, <1>3

LEMMA AlwaysStored == Spec => []Stored
BY InitStored, NextStored, PTL DEF Spec

LEMMA RowsAreBars == \A path \in Paths : LinesOf(path) \subseteq Lines
BY DEF LinesOf, Lines, BarsOn

(* The storage and the memories of the programs are what TypeOK says.       *)
THEOREM StorageIsTyped == Spec => []TypeOK
<1>1. Stored => TypeOK
  <2> SUFFICES ASSUME Stored PROVE TypeOK
    OBVIOUS
  <2>1. Memories /\ Files /\ \A p \in Procs : Batch(p)
    BY DEF Stored, Held
  <2>2. files \in [Paths -> Seq(Lines)]
    <3>1. \A path \in Paths : files[path] \in Seq(Lines)
      <4> TAKE path \in Paths
      <4>1. files[path] \in Seq(LinesOf(path)) /\ LinesOf(path) \subseteq Lines
        BY <2>1, RowsAreBars DEF Files
      <4> QED
        BY <4>1, SeqMonotonic, Zenon
    <3> QED
      BY <2>1, <3>1 DEF Files
  <2>3. unsaved \in [Procs -> Seq(Bars)]
    <3>1. \A p \in Procs : unsaved[p] \in Seq(Bars)
      <4> TAKE p \in Procs
      <4>1. BarsOn(target[p].interval) \subseteq Bars
        BY DEF BarsOn
      <4>2. unsaved[p] = <<>> \/ unsaved[p] \in Seq(BarsOn(target[p].interval))
        BY <2>1 DEF Batch
      <4>3. <<>> \in Seq(Bars)
        OBVIOUS
      <4> QED
        BY <4>1, <4>2, <4>3, SeqMonotonic, Zenon
    <3> QED
      BY <2>1, <3>1 DEF Memories
  <2>4. /\ at \in [Procs -> Places] /\ target \in [Procs -> Paths \cup {NoPath}]
        /\ found \in [Procs -> BOOLEAN] /\ saved \in [Procs -> BOOLEAN]
    BY <2>1 DEF Memories, Batch
  <2>5. \A p \in Procs : at[p] \in {"check", "open", "header", "rows"} => target[p] \in Paths
    BY <2>1 DEF Batch, Storing
  <2>6. \A p \in Procs : at[p] \in {"load", "request", "waiting", "parse", "result"} =>
          <<program[p], query[p]>> \in Asked
    BY DEF Stored, Held, Answered, Fetching
  <2>7. ASSUME NEW p \in Procs, at[p] = "result", result[p].success
        PROVE  OfKind(query[p], result[p].data)
    <3>1. MadeOf(query[p], reply[p], result[p])
      BY <2>7 DEF Stored, Held, Answered, Decided
    <3>2. query[p] \in {"klines", "ticker", "book"}
      BY <2>6, <2>7 DEF Asked
    <3>3. CASE query[p] = "klines"
      <4>1. result[p].data \in Seq(FreshOn(interval[p]))
        BY <2>7, <3>3 DEF Stored, Held, Holds
      <4>2. FreshOn(interval[p]) \subseteq Bars
        BY DEF FreshOn, BarsOn, Fresh
      <4>3. result[p].data \in Seq(Bars)
        BY <4>1, <4>2, SeqMonotonic, Zenon
      <4> QED
        BY <3>3, <4>3 DEF OfKind
    <3>4. CASE query[p] = "ticker"
      BY <3>1, <3>4 DEF MadeOf, OfKind
    <3>5. CASE query[p] = "book"
      BY <3>1, <3>5 DEF MadeOf, OfKind
    <3> QED
      BY <3>2, <3>3, <3>4, <3>5
  <2> QED
    BY <2>1, <2>2, <2>3, <2>4, <2>5, <2>6, <2>7 DEF TypeOK, Files
<1> QED
  BY <1>1, AlwaysStored, PTL

(* Every row of a file has the label of the file's interval, because the    *)
(* bars that are on their way to it are of that interval.                   *)
THEOREM RowsAlwaysNameTheirInterval == Spec => []RowsNameTheirInterval
<1>1. Stored => RowsNameTheirInterval
  <2> SUFFICES ASSUME Stored, NEW path \in Paths, NEW i \in 1..Len(files[path]),
                      files[path][i].kind = "row"
               PROVE  files[path][i].label =
                        IF path.interval \in NamedIntervals THEN path.interval ELSE "1m"
    BY DEF RowsNameTheirInterval
  <2>1. files[path] \in Seq(LinesOf(path))
    BY DEF Stored, Files
  <2>2. files[path][i] \in LinesOf(path)
    BY <2>1, ElementOfSeq, Zenon
  <2>3. PICK bar \in BarsOn(path.interval) : files[path][i] = Row(bar)
    BY <2>2 DEF LinesOf, Header, Torn, Garbled
  <2>4. files[path][i].label = timeframe_to_string[string_to_timeframe(path.interval)]
    BY <2>3 DEF BarsOn, Row
  <2> QED
    BY <2>4, LabelIsInterval, Zenon
<1> QED
  BY <1>1, AlwaysStored, PTL
-----------------------------------------------------------------------------
(* The files as a table of rows.                                            *)
RowLines == INSTANCE ChosenLemmas WITH keep <- IsRow

EndsTorn(lines) == lines # <<>> /\ lines[Len(lines)] = Torn

TableOf    == [path \in Paths |-> BarsIn(files[path])]
SavingOnes == {p \in Procs : at[p] \in {"check", "open", "header", "rows"}}
Told       == {p \in Procs : saved[p]}
Damaged    == {path \in Paths : files[path] # <<>> /\ files[path][Len(files[path])] = Torn}

LEMMA BarsInIs ==
  ASSUME NEW lines
  PROVE  BarsIn(lines) = [i \in 1..Len(RowLines!Chosen(lines)) |->
                            RowLines!Chosen(lines)[i].bar]
<1>1. chosen(lines, IsRow) = RowLines!Chosen(lines)
  BY Zenon DEF chosen, RowLines!Chosen, RowLines!chosen, FoldLeft, RowLines!FoldLeft,
     MapThenFoldSet, RowLines!MapThenFoldSet, Max, RowLines!Max
<1> QED
  BY <1>1, Zenon DEF BarsIn

LEMMA BarsInAppend ==
  ASSUME NEW L, NEW lines \in Seq(L), NEW line \in L
  PROVE  BarsIn(Append(lines, line)) =
           IF IsRow(line) THEN Append(BarsIn(lines), line.bar) ELSE BarsIn(lines)
<1> DEFINE c == RowLines!Chosen(lines)
           bars == [i \in 1..Len(c) |-> c[i].bar]
<1>1. RowLines!Chosen(Append(lines, line)) = IF IsRow(line) THEN Append(c, line) ELSE c
  BY RowLines!ChosenAppend, Zenon
<1>2. c \in Seq({x \in L : IsRow(x)})
  BY RowLines!ChosenType, Zenon
<1>3. BarsIn(lines) = bars
  BY BarsInIs, Zenon
<1>4. CASE ~IsRow(line)
  BY <1>1, <1>3, <1>4, BarsInIs, Zenon
<1>5. CASE IsRow(line)
  <2>1. BarsIn(Append(lines, line)) =
          [i \in 1..Len(Append(c, line)) |-> Append(c, line)[i].bar]
    BY <1>1, <1>5, BarsInIs, Zenon
  <2> HIDE DEF c
  <2>2. [i \in 1..Len(Append(c, line)) |-> Append(c, line)[i].bar] = Append(bars, line.bar)
    BY <1>2
  <2> QED
    BY <1>3, <1>5, <2>1, <2>2, Zenon
<1> QED
  BY <1>4, <1>5

LEMMA DamageIsNoRow ==
  /\ ~IsRow(Header) /\ ~IsRow(Torn) /\ ~IsRow(Garbled)
  /\ Garbled # Torn /\ Header # Torn /\ \A bar : IsRow(Row(bar)) /\ Row(bar) # Torn
<1>1. /\ Header.kind = "header" /\ Torn.kind = "torn" /\ Garbled.kind = "garbled"
      /\ \A bar : Row(bar).kind = "row"
  BY DEF Header, Torn, Garbled, Row
<1> HIDE DEF Header, Torn, Garbled, Row
<1> QED
  BY <1>1 DEF IsRow

(* What a further line makes of a file's rows.                              *)
LEMMA WithLineRows ==
  ASSUME NEW L, Torn \in L, Garbled \in L, NEW lines \in Seq(L), NEW line \in L
  PROVE  /\ BarsIn(with_line(lines, line)) =
              IF EndsTorn(lines) \/ ~IsRow(line) THEN BarsIn(lines)
              ELSE Append(BarsIn(lines), line.bar)
         /\ EndsTorn(with_line(lines, line)) <=> line = Torn
<1>1. CASE EndsTorn(lines)
  <2> DEFINE front == SubSeq(lines, 1, Len(lines) - 1)
             last == IF line = Torn THEN Torn ELSE Garbled
  <2>1. /\ front \in Seq(L) /\ lines = Append(front, Torn)
        /\ [lines EXCEPT ![Len(lines)] = last] = Append(front, last)
    <3> DEFINE n == Len(lines)
    <3>1. n \in Nat \ {0} /\ lines[n] = Torn /\ lines \in [1..n -> L]
      BY <1>1 DEF EndsTorn
    <3>2. front \in Seq(L) /\ Len(front) = n - 1 /\ \A i \in 1..(n - 1) : front[i] = lines[i]
      BY <3>1
    <3> HIDE DEF front, last, n
    <3>3. ASSUME NEW x \in L PROVE Append(front, x) = [lines EXCEPT ![n] = x]
      <4>1. /\ Append(front, x) \in Seq(L) /\ Len(Append(front, x)) = n
            /\ \A i \in 1..n : Append(front, x)[i] = IF i = n THEN x ELSE lines[i]
        BY <3>1, <3>2
      <4>2. /\ [lines EXCEPT ![n] = x] \in Seq(L) /\ Len([lines EXCEPT ![n] = x]) = n
            /\ \A i \in 1..n : [lines EXCEPT ![n] = x][i] = IF i = n THEN x ELSE lines[i]
        BY <3>1
      <4> QED
        BY <4>1, <4>2, SeqEqual
    <3>4. last \in L
      BY DEF last
    <3>5. [lines EXCEPT ![n] = Torn] = lines
      BY <3>1
    <3> QED
      BY <3>2, <3>3, <3>4, <3>5 DEF n
  <2>2. with_line(lines, line) = Append(front, last)
    BY <1>1, <2>1 DEF with_line, EndsTorn
  <2>3. last \in L /\ ~IsRow(last) /\ ~IsRow(Torn) /\ (last = Torn <=> line = Torn)
    BY DamageIsNoRow
  <2> HIDE DEF front, last
  <2>4. BarsIn(Append(front, last)) = BarsIn(front) /\ BarsIn(lines) = BarsIn(front)
    BY <2>1, <2>3, BarsInAppend, Zenon
  <2>5. EndsTorn(Append(front, last)) <=> last = Torn
    BY <2>1, <2>3 DEF EndsTorn
  <2> QED
    BY <1>1, <2>2, <2>3, <2>4, <2>5
<1>2. CASE ~EndsTorn(lines)
  <2>1. with_line(lines, line) = Append(lines, line)
    BY <1>2 DEF with_line, EndsTorn
  <2>2. EndsTorn(Append(lines, line)) <=> line = Torn
    BY DEF EndsTorn
  <2>3. BarsIn(Append(lines, line)) =
           IF IsRow(line) THEN Append(BarsIn(lines), line.bar) ELSE BarsIn(lines)
    BY BarsInAppend, Zenon
  <2> QED
    BY <1>2, <2>1, <2>2, <2>3
<1> QED
  BY <1>1, <1>2

LEMMA TableWritten ==
  ASSUME Files, NEW path \in Paths, NEW line \in LinesOf(path), write(path, line)
  PROVE  /\ TableOf' = IF path \in Damaged \/ ~IsRow(line) THEN TableOf
                       ELSE [TableOf EXCEPT ![path] = Append(@, line.bar)]
         /\ Damaged' = IF line = Torn THEN Damaged \cup {path} ELSE Damaged \ {path}
<1> DEFINE new == with_line(files[path], line)
<1>1. Torn \in LinesOf(path) /\ Garbled \in LinesOf(path) /\ files[path] \in Seq(LinesOf(path))
  BY DEF LinesOf, Files
<1>2. /\ BarsIn(new) = IF EndsTorn(files[path]) \/ ~IsRow(line) THEN BarsIn(files[path])
                       ELSE Append(BarsIn(files[path]), line.bar)
      /\ EndsTorn(new) <=> line = Torn
  <2> DEFINE L == LinesOf(path)
             lines == files[path]
  <2>1. Torn \in L /\ Garbled \in L /\ lines \in Seq(L) /\ line \in L
    BY <1>1
  <2> HIDE DEF L, lines
  <2>2. /\ BarsIn(with_line(lines, line)) =
              IF EndsTorn(lines) \/ ~IsRow(line) THEN BarsIn(lines)
              ELSE Append(BarsIn(lines), line.bar)
        /\ EndsTorn(with_line(lines, line)) <=> line = Torn
    BY <2>1, WithLineRows
  <2> QED
    BY <2>2 DEF lines
<1>3. files' = [files EXCEPT ![path] = new]
  BY DEF write
<1> HIDE DEF new, write
<1>4. \A path2 \in Paths : files'[path2] = IF path2 = path THEN new ELSE files[path2]
  BY <1>3 DEF Files
<1>5. path \in Damaged <=> EndsTorn(files[path])
  BY DEF Damaged, EndsTorn
<1>6. Damaged' = IF line = Torn THEN Damaged \cup {path} ELSE Damaged \ {path}
  <2>1. \A path2 \in Paths : path2 \in Damaged' <=> EndsTorn(files'[path2])
    BY DEF Damaged, EndsTorn
  <2>2. \A path2 \in Paths : path2 \in Damaged <=> EndsTorn(files[path2])
    BY DEF Damaged, EndsTorn
  <2>3. Damaged \subseteq Paths /\ Damaged' \subseteq Paths
    BY DEF Damaged
  <2> HIDE DEF Damaged
  <2> QED
    BY <1>2, <1>4, <2>1, <2>2, <2>3
<1>7. TableOf' = [path2 \in Paths |->
                    IF path2 = path THEN BarsIn(new) ELSE BarsIn(files[path2])]
  BY <1>4 DEF TableOf
<1>8. CASE path \in Damaged \/ ~IsRow(line)
  BY <1>2, <1>5, <1>6, <1>7, <1>8 DEF TableOf
<1>9. CASE ~(path \in Damaged \/ ~IsRow(line))
  <2>1. TableOf[path] = BarsIn(files[path])
    BY DEF TableOf
  <2>2. TableOf' = [TableOf EXCEPT ![path] = BarsIn(new)]
    BY <1>7 DEF TableOf
  <2> QED
    BY <1>2, <1>5, <1>6, <1>9, <2>1, <2>2
<1> QED
  BY <1>8, <1>9

LEMMA TableStays == ASSUME UNCHANGED files PROVE TableOf' = TableOf /\ Damaged' = Damaged
BY DEF TableOf, Damaged

LEMMA SetsMove ==
  ASSUME Memories, NEW p \in Procs, LocalTo(p)
  PROVE  /\ SavingOnes' = IF at'[p] \in Storing THEN SavingOnes \cup {p} ELSE SavingOnes \ {p}
         /\ Told' = IF saved'[p] THEN Told \cup {p} ELSE Told \ {p}
<1>1. \A q \in Procs : q # p => at'[q] = at[q] /\ saved'[q] = saved[q]
  BY OthersStay
<1> QED
  BY <1>1 DEF SavingOnes, Told, Storing

(* Each step of a program is one of the table, or none.                     *)
LEMMA ActRefines ==
  ASSUME Stored, NEW p \in Procs, Act(p)
  PROVE  Table!Next \/ UNCHANGED Table!vars
<1>0. Files /\ Batch(p) /\ Memories /\ LocalTo(p)
  BY ActsLocally DEF Stored, Held
<1>1. /\ SavingOnes' = IF at'[p] \in Storing THEN SavingOnes \cup {p} ELSE SavingOnes \ {p}
      /\ Told' = IF saved'[p] THEN Told \cup {p} ELSE Told \ {p}
      /\ p \in SavingOnes <=> at[p] \in Storing
      /\ p \in Told <=> saved[p]
  <2>1. p \in SavingOnes <=> at[p] \in Storing
    BY DEF SavingOnes, Storing
  <2>2. p \in Told <=> saved[p]
    BY DEF Told
  <2> QED
    BY <1>0, <2>1, <2>2, SetsMove
<1>2. /\ unsaved' = [unsaved EXCEPT ![p] = unsaved'[p]]
      /\ target' = [target EXCEPT ![p] = target'[p]]
  BY <1>0 DEF LocalTo
<1> DEFINE Same == /\ TableOf' = TableOf /\ unsaved' = unsaved /\ target' = target
                   /\ SavingOnes' = SavingOnes /\ Told' = Told /\ Damaged' = Damaged
<1>3. Same => UNCHANGED Table!vars
  BY Zenon DEF Table!vars, TableOf, SavingOnes, Told, Damaged
<1>4. \A q \in Procs : (Table!Begin(q) \/ Table!Put(q) \/ Table!Repair(q) \/ Table!Lose(q)
                        \/ Table!Finish(q) \/ Table!Abandon(q)) => Table!Next
  BY Zenon DEF Table!Next
<1>5. CASE Asking(p)
  <2>1. /\ UNCHANGED <<files, target, unsaved, saved>>
        /\ at[p] \notin Storing \cup {"exit"} /\ at'[p] \in Places \ Storing
    BY <1>5, AskingMoves DEF storage_vars
  <2>2. TableOf' = TableOf /\ Damaged' = Damaged
    BY <2>1, TableStays
  <2>3. SavingOnes' = SavingOnes /\ Told' = Told
    BY <1>1, <2>1
  <2> QED
    BY <1>3, <2>1, <2>2, <2>3
<1>6. CASE start(p)
  <2>1. /\ UNCHANGED <<files, target, unsaved, saved>> /\ at[p] = "idle" /\ at'[p] = "load"
    BY <1>0, <1>6 DEF start, goto, Memories
  <2>2. TableOf' = TableOf /\ Damaged' = Damaged
    BY <2>1, TableStays
  <2>3. SavingOnes' = SavingOnes /\ Told' = Told
    BY <1>1, <2>1 DEF Storing
  <2> QED
    BY <1>3, <2>1, <2>2, <2>3
<1>7. CASE save_collected(p) \/ save_cleaned(p)
  <2>1. UNCHANGED <<files, saved>>
    BY <1>7 DEF save_collected, save_cleaned, construct_storage
  <2>2. /\ target'[p] \in Paths /\ unsaved'[p] \in Seq(BarsOn(target'[p].interval))
        /\ at[p] = "result" /\ at'[p] = "check"
    BY <1>7, SavesItsInterval
  <2>3. unsaved'[p] \in Seq(Bars)
    <3>1. BarsOn(target'[p].interval) \subseteq Bars
      BY DEF BarsOn
    <3> QED
      BY <2>2, <3>1, SeqMonotonic, Zenon
  <2>4. TableOf' = TableOf /\ Damaged' = Damaged
    BY <2>1, TableStays
  <2>5. SavingOnes' = SavingOnes \cup {p} /\ p \notin SavingOnes /\ Told' = Told
    BY <1>1, <2>1, <2>2 DEF Storing
  <2>6. Table!Begin(p)
    BY <1>2, <2>2, <2>3, <2>4, <2>5, Zenon
       DEF Table!Begin, TableOf, SavingOnes, Told, Damaged
  <2> QED
    BY <1>4, <2>6
<1>8. CASE disk_full(p)
  <2>1. /\ files' = files \/ write(target[p], Torn)
        /\ unsaved' = [unsaved EXCEPT ![p] = <<>>] /\ UNCHANGED <<target, saved>>
        /\ at[p] \in Storing /\ at'[p] = "rows"
    BY <1>0, <1>8 DEF disk_full, write_fails, goto, Memories, Storing
  <2>2. TableOf' = TableOf /\ Damaged' \in {Damaged, Damaged \cup {target[p]}}
    <3>1. CASE files' = files
      BY <3>1, TableStays
    <3>2. CASE write(target[p], Torn)
      <4>1. target[p] \in Paths /\ Torn \in LinesOf(target[p])
        BY <1>0, <2>1 DEF Batch, LinesOf
      <4> QED
        BY <1>0, <3>2, <4>1, TableWritten, DamageIsNoRow
    <3> QED
      BY <2>1, <3>1, <3>2
  <2>3. SavingOnes' = SavingOnes /\ p \in SavingOnes /\ Told' = Told
    BY <1>1, <2>1 DEF Storing
  <2>4. Table!Lose(p)
    BY <2>1, <2>2, <2>3, Zenon DEF Table!Lose, TableOf, SavingOnes, Told, Damaged
  <2> QED
    BY <1>4, <2>4
<1>9. CASE save(p)
  <2>1. CASE save_check(p) \/ save_open(p)
    <3>1. /\ UNCHANGED <<files, target, unsaved, saved>>
          /\ at[p] \in Storing /\ at'[p] \in Storing
      BY <1>0, <2>1 DEF save_check, save_open, goto, Memories, Storing
    <3>2. TableOf' = TableOf /\ Damaged' = Damaged
      BY <3>1, TableStays
    <3>3. SavingOnes' = SavingOnes /\ Told' = Told
      BY <1>1, <3>1
    <3> QED
      BY <1>3, <3>1, <3>2, <3>3
  <2>2. CASE save_returns_false(p)
    <3>1. /\ UNCHANGED <<files, target, unsaved, saved>> /\ at[p] = "open" /\ at'[p] = "exit"
      BY <1>0, <2>2 DEF save_returns_false, goto, Memories
    <3>2. TableOf' = TableOf /\ Damaged' = Damaged
      BY <3>1, TableStays
    <3>3. SavingOnes' = SavingOnes \ {p} /\ Told' = Told \ {p}
      BY <1>0, <1>1, <3>1 DEF Storing, Batch
    <3>4. unsaved' \in {unsaved, [unsaved EXCEPT ![p] = <<>>]}
      BY <3>1
    <3>5. target' \in {target, [target EXCEPT ![p] = NoPath]}
      BY <3>1
    <3>6. Table!Abandon(p)
      BY <3>2, <3>3, <3>4, <3>5, Zenon DEF Table!Abandon, TableOf, SavingOnes, Told, Damaged
    <3> QED
      BY <1>4, <3>6
  <2>3. CASE save_returns_true(p)
    <3>1. /\ UNCHANGED <<files, target, unsaved>> /\ at[p] = "rows" /\ at'[p] = "exit"
          /\ saved'[p] = TRUE /\ unsaved[p] = <<>>
      BY <1>0, <2>3 DEF save_returns_true, goto, Memories
    <3>2. TableOf' = TableOf /\ Damaged' = Damaged
      BY <3>1, TableStays
    <3>3. SavingOnes' = SavingOnes \ {p} /\ p \in SavingOnes /\ Told' = Told \cup {p}
      BY <1>1, <3>1 DEF Storing
    <3>4. Table!Finish(p)
      BY <3>1, <3>2, <3>3, Zenon DEF Table!Finish, TableOf, SavingOnes, Told, Damaged
    <3> QED
      BY <1>4, <3>4
  <2>4. CASE save_header(p)
    <3>1. /\ write(target[p], Header) /\ UNCHANGED <<target, unsaved, saved>>
          /\ at[p] = "header" /\ at'[p] = "rows"
      BY <1>0, <2>4 DEF save_header, goto, Memories
    <3>2. target[p] \in Paths /\ Header \in LinesOf(target[p])
      BY <1>0, <3>1 DEF Batch, LinesOf, Storing
    <3>3. TableOf' = TableOf /\ Damaged' = Damaged \ {target[p]}
      BY <1>0, <3>1, <3>2, TableWritten, DamageIsNoRow
    <3>4. SavingOnes' = SavingOnes /\ p \in SavingOnes /\ Told' = Told
      BY <1>1, <3>1 DEF Storing
    <3>5. Table!Repair(p)
      BY <3>1, <3>3, <3>4, Zenon DEF Table!Repair, TableOf, SavingOnes, Told, Damaged
    <3> QED
      BY <1>4, <3>5
  <2>5. CASE save_row(p)
    <3> DEFINE bar == Head(unsaved[p])
    <3>1. /\ write(target[p], Row(bar)) /\ UNCHANGED <<at, target, saved>>
          /\ at[p] = "rows" /\ unsaved[p] # <<>>
          /\ unsaved' = [unsaved EXCEPT ![p] = Tail(@)]
      BY <2>5 DEF save_row
    <3>2. target[p] \in Paths /\ unsaved[p] \in Seq(BarsOn(target[p].interval))
      BY <1>0, <3>1 DEF Batch, Storing
    <3>3. bar \in BarsOn(target[p].interval)
      BY <3>1, <3>2
    <3> HIDE DEF bar
    <3>4. Row(bar) \in LinesOf(target[p])
      BY <3>3, Zenon DEF LinesOf
    <3>5. IsRow(Row(bar)) /\ Row(bar) # Torn /\ Row(bar).bar = bar
      BY DamageIsNoRow DEF Row
    <3>6. /\ TableOf' = IF target[p] \in Damaged THEN TableOf
                        ELSE [TableOf EXCEPT ![target[p]] = Append(@, bar)]
          /\ Damaged' = Damaged \ {target[p]}
      <4> HIDE DEF Row
      <4> QED
        BY <1>0, <3>1, <3>2, <3>4, <3>5, TableWritten
    <3>7. SavingOnes' = SavingOnes /\ p \in SavingOnes /\ Told' = Told
      BY <1>1, <3>1 DEF Storing
    <3>8. IF target[p] \in Damaged THEN TableOf' = TableOf
          ELSE TableOf' = [TableOf EXCEPT ![target[p]] = Append(@, Head(unsaved[p]))]
      BY <3>6 DEF bar
    <3>9. Table!Put(p)
      BY <3>1, <3>6, <3>7, <3>8, Zenon DEF Table!Put, TableOf, SavingOnes, Told, Damaged
    <3> QED
      BY <1>4, <3>9
  <2> QED
    BY <1>9, <2>1, <2>2, <2>3, <2>4, <2>5 DEF save, save_ohlcv
<1>10. CASE crash(p) \/ exit(p)
  <2>1. /\ UNCHANGED files /\ unsaved' = [unsaved EXCEPT ![p] = <<>>]
        /\ target' = [target EXCEPT ![p] = NoPath]
        /\ at'[p] = "idle" /\ saved'[p] = FALSE
    BY <1>0, <1>10 DEF crash, exit, leave, goto, Memories
  <2>2. TableOf' = TableOf /\ Damaged' = Damaged
    BY <2>1, TableStays
  <2>3. SavingOnes' = SavingOnes \ {p} /\ Told' = Told \ {p}
    BY <1>1, <2>1 DEF Storing
  <2>4. unsaved' \in {unsaved, [unsaved EXCEPT ![p] = <<>>]}
    BY <2>1
  <2>5. target' \in {target, [target EXCEPT ![p] = NoPath]}
    BY <2>1
  <2>6. Table!Abandon(p)
    BY <2>2, <2>3, <2>4, <2>5, Zenon DEF Table!Abandon, TableOf, SavingOnes, Told, Damaged
  <2> QED
    BY <1>4, <2>6
<1> QED
  BY <1>5, <1>6, <1>7, <1>8, <1>9, <1>10, ActIs

LEMMA InitRefines == Init => Table!Init
<1> SUFFICES ASSUME Init PROVE Table!Init
  OBVIOUS
<1>1. BarsIn(<<>>) = <<>>
  <2>1. BarsIn(<<>>) = [i \in 1..Len(<<>>) |-> <<>>[i].bar]
    BY BarsInIs, RowLines!ChosenEmpty, Zenon
  <2> QED
    BY <2>1
<1>2. \A path \in Paths : files[path] = <<>>
  BY DEF Init, StorageInit
<1>3. TableOf = [path \in Paths |-> <<>>]
  BY <1>1, <1>2 DEF TableOf
<1>4. Damaged = {}
  BY <1>2 DEF Damaged
<1>5. SavingOnes = {} /\ Told = {}
  BY DEF Init, StorageInit, SavingOnes, Told
<1>6. unsaved = [p \in Procs |-> <<>>] /\ target = [p \in Procs |-> NoPath]
  BY DEF Init, StorageInit
<1> QED
  BY <1>3, <1>4, <1>5, <1>6, Zenon DEF Table!Init, TableOf, SavingOnes, Told, Damaged

(* The storage implements the table of rows: whatever the programs do, at   *)
(* the same time and up to their crash, rows are only added, each at most   *)
(* once and in order, and nobody is told that its rows are saved who has    *)
(* one left.                                                                *)
THEOREM StorageImplementsKlineTable == Spec => ImplementsKlineTable
<1>1. Stored /\ [Next]_vars => [Table!Next]_Table!vars
  <2> SUFFICES ASSUME Stored, [Next]_vars
               PROVE  Table!Next \/ UNCHANGED Table!vars
    OBVIOUS
  <2>1. CASE UNCHANGED vars
    <3>1. UNCHANGED <<files, at, unsaved, target, saved>>
      BY <2>1 DEF vars, storage_vars, collector_vars
    <3> QED
      BY <3>1 DEF Table!vars
  <2>2. CASE Next
    BY <2>2, NextIsAct, ActRefines
  <2> QED
    BY <2>1, <2>2
<1> QED
  BY <1>1, InitRefines, AlwaysStored, PTL DEF Spec, ImplementsKlineTable, Table!Spec
-----------------------------------------------------------------------------
(* No step takes a row away.                                                *)
LEMMA BarsInType ==
  ASSUME NEW L, NEW lines \in Seq(L)
  PROVE  BarsIn(lines) \in Seq({line.bar : line \in L})
<1> DEFINE c == RowLines!Chosen(lines)
<1>1. c \in Seq({x \in L : IsRow(x)})
  BY RowLines!ChosenType, Zenon
<1>2. BarsIn(lines) = [i \in 1..Len(c) |-> c[i].bar]
  BY BarsInIs, Zenon
<1> HIDE DEF c
<1>3. Len(c) \in Nat /\ \A i \in 1..Len(c) : c[i] \in L
  BY <1>1
<1> QED
  BY <1>2, <1>3

LEMMA PrefixOfAppend ==
  ASSUME NEW S, NEW s \in Seq(S), NEW e
  PROVE  IsPrefix(s, s) /\ IsPrefix(s, Append(s, e))
<1>1. s \in Seq(S \cup {e})
  OBVIOUS
<1>2. Len(s) <= Len(Append(s, e)) /\ SubSeq(Append(s, e), 1, Len(s)) = s
  BY <1>1
<1>3. SubSeq(s, 1, Len(s)) = s
  OBVIOUS
<1> QED
  BY <1>2, <1>3 DEF IsPrefix

LEMMA TableMoves ==
  ASSUME Table!Next
  PROVE  \/ TableOf' = TableOf
         \/ \E path, bar : TableOf' = [TableOf EXCEPT ![path] = Append(@, bar)]
<1>1. PICK p \in Procs : \/ Table!Begin(p) \/ Table!Put(p) \/ Table!Repair(p)
                         \/ Table!Lose(p) \/ Table!Finish(p) \/ Table!Abandon(p)
  BY Zenon DEF Table!Next
<1>2. CASE Table!Begin(p) \/ Table!Repair(p) \/ Table!Lose(p) \/ Table!Finish(p)
             \/ Table!Abandon(p)
  BY <1>2, Zenon DEF Table!Begin, Table!Repair, Table!Lose, Table!Finish, Table!Abandon,
     TableOf
<1>3. CASE Table!Put(p)
  <2>1. \/ TableOf' = TableOf
        \/ TableOf' = [TableOf EXCEPT ![target[p]] = Append(@, Head(unsaved[p]))]
    BY <1>3, Zenon DEF Table!Put, TableOf
  <2> QED
    BY <2>1
<1> QED
  BY <1>1, <1>2, <1>3

(* The rows of every file are, after any step, the rows before it and then  *)
(* perhaps more: no concurrent save, header, repair or crash takes one away *)
(* or changes its place.                                                    *)
THEOREM RowsAreNeverLost ==
  Spec => [][\A path \in Paths : IsPrefix(BarsIn(files[path]), BarsIn(files'[path]))]_vars
<1>1. Stored /\ [Next]_vars =>
        [\A path \in Paths : IsPrefix(BarsIn(files[path]), BarsIn(files'[path]))]_vars
  <2> SUFFICES ASSUME Stored, Next, NEW path \in Paths
               PROVE  IsPrefix(BarsIn(files[path]), BarsIn(files'[path]))
    BY Zenon
  <2>1. TableOf[path] = BarsIn(files[path]) /\ TableOf'[path] = BarsIn(files'[path])
    BY DEF TableOf
  <2>2. PICK S : TableOf[path] \in Seq(S)
    <3>1. files[path] \in Seq(LinesOf(path))
      BY DEF Stored, Files
    <3> QED
      BY <2>1, <3>1, BarsInType, Zenon
  <2>3. CASE TableOf' = TableOf
    BY <2>1, <2>2, <2>3, PrefixOfAppend, Zenon
  <2>4. CASE \E x, bar : TableOf' = [TableOf EXCEPT ![x] = Append(@, bar)]
    <3>1. PICK x, bar : TableOf' = [TableOf EXCEPT ![x] = Append(@, bar)]
      BY <2>4
    <3>2. TableOf'[path] \in {TableOf[path], Append(TableOf[path], bar)}
      <4>1. path \in DOMAIN TableOf
        BY DEF TableOf
      <4> QED
        BY <3>1, <4>1
    <3> QED
      BY <2>1, <2>2, <3>2, PrefixOfAppend, Zenon
  <2>5. Table!Next \/ UNCHANGED Table!vars
    BY NextIsAct, ActRefines
  <2>6. CASE UNCHANGED Table!vars
    BY <2>3, <2>6, Zenon DEF Table!vars, TableOf
  <2> QED
    BY <2>3, <2>4, <2>5, <2>6, TableMoves
<1> QED
  BY AlwaysStored, <1>1, PTL DEF Spec
=============================================================================
