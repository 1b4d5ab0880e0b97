---------------------------- MODULE KlineStorage ----------------------------
(* cpp/src/storage/kline_storage.cpp: processes that append batches of bars *)
(* to CSV files.  A file is a sequence of lines; std::endl flushes, so each *)
(* line is one write in append mode.  The date in a file name is left out:  *)
(* a path stands for one day's file.                                        *)
EXTENDS MarketTypes, FiniteSets

CONSTANTS Procs, Paths,     \* a path is a record [dir, symbol, interval]
          Bars,             \* the bars there are
          CreatableDirs,    \* directories mkdir() can create
          MaxFaults         \* bound: crashes and failing writes

VARIABLES files,    \* the lines of each file
          present,  \* the paths at which there is a file
          dirs,     \* the directories there are, "" is the working directory
          at,       \* where each process is
          target,   \* filename of the save under way
          found,    \* its file_exists
          unsaved,  \* the bars it has still to write
          saved,    \* the program was told that its bars are saved
          faults,   \* crashes and failing writes so far
          spoiled   \* history: files whose creation was disturbed

storage_vars ==
  <<files, present, dirs, at, target, found, unsaved, saved, faults, spoiled>>

NoPath == [dir |-> "", symbol |-> "", interval |-> ""]

Header  == [kind |-> "header"]
Torn    == [kind |-> "torn"]      \* a line that lacks its end
Garbled == [kind |-> "garbled"]   \* a line glued to a torn one
Row(bar) == [kind |-> "row", bar |-> bar,
             label |-> timeframe_to_string[bar.timeframe]]

StorageInit ==
  /\ files = [path \in Paths |-> <<>>] /\ present = {} /\ dirs = {""}
  /\ target = [p \in Procs |-> NoPath] /\ found = [p \in Procs |-> FALSE]
  /\ unsaved = [p \in Procs |-> <<>>] /\ saved = [p \in Procs |-> FALSE]
  /\ faults = 0 /\ spoiled = {}

(* Processes between the test for the file and the end of its header.       *)
creators(path) ==
  {p \in Procs : at[p] \in {"open", "header"} /\ target[p] = path /\ ~found[p]}

with_line(lines, line) ==
  IF lines # <<>> /\ lines[Len(lines)] = Torn
  THEN [lines EXCEPT ![Len(lines)] = IF line = Torn THEN Torn ELSE Garbled]
  ELSE Append(lines, line)

write(path, line) ==
  files' = [files EXCEPT ![path] = with_line(@, line)]

goto(p, place) == at' = [at EXCEPT ![p] = place]

(* The constructor makes one level of directory, and goes on without it.    *)
construct_storage(p, path, bars) ==
  /\ dirs' = dirs \cup ({path.dir} \cap CreatableDirs)
  /\ target' = [target EXCEPT ![p] = path]
  /\ unsaved' = [unsaved EXCEPT ![p] = bars]
  /\ goto(p, "check")
  /\ UNCHANGED <<files, present, found, saved, faults, spoiled>>

(* Mutant: the file is taken to be new whenever it is empty or missing.     *)
save_check_always_new(p) ==
  /\ at[p] = "check"
  /\ found' = [found EXCEPT ![p] = FALSE]
  /\ spoiled' = IF creators(target[p]) = {} THEN spoiled ELSE spoiled \cup {target[p]}
  /\ goto(p, "open")
  /\ UNCHANGED <<files, present, dirs, target, unsaved, saved, faults>>

(* std::ifstream file(filename); file_exists = file.good().                 *)
save_check(p) ==
  /\ at[p] = "check"
  /\ found' = [found EXCEPT ![p] = target[p] \in present]
  /\ spoiled' = IF creators(target[p]) = {} THEN spoiled ELSE spoiled \cup {target[p]}
  /\ goto(p, "open")
  /\ UNCHANGED <<files, present, dirs, target, unsaved, saved, faults>>

(* Mutant: std::ios::trunc for std::ios::app.                               *)
save_open_truncating(p) ==
  /\ at[p] = "open" /\ target[p].dir \in dirs
  /\ present' = present \cup {target[p]}
  /\ files' = [files EXCEPT ![target[p]] = <<>>]
  /\ goto(p, IF found[p] THEN "rows" ELSE "header")
  /\ UNCHANGED <<dirs, target, found, unsaved, saved, faults, spoiled>>

save_open(p) ==
  /\ at[p] = "open" /\ target[p].dir \in dirs
  /\ present' = present \cup {target[p]}
  /\ goto(p, IF found[p] THEN "rows" ELSE "header")
  /\ UNCHANGED <<files, dirs, target, found, unsaved, saved, faults, spoiled>>

save_returns_false(p) ==
  /\ at[p] = "open" /\ target[p].dir \notin dirs
  /\ goto(p, "exit")
  /\ UNCHANGED <<files, present, dirs, target, found, unsaved, saved, faults, spoiled>>

save_header(p) ==
  /\ at[p] = "header"
  /\ write(target[p], Header)
  /\ goto(p, "rows")
  /\ UNCHANGED <<present, dirs, target, found, unsaved, saved, faults, spoiled>>

save_row(p) ==
  /\ at[p] = "rows" /\ unsaved[p] # <<>>
  /\ write(target[p], Row(Head(unsaved[p])))
  /\ unsaved' = [unsaved EXCEPT ![p] = Tail(@)]
  /\ UNCHANGED <<present, dirs, at, target, found, saved, faults, spoiled>>

save_returns_true(p) ==
  /\ at[p] = "rows" /\ unsaved[p] = <<>>
  /\ saved' = [saved EXCEPT ![p] = TRUE]
  /\ goto(p, "exit")
  /\ UNCHANGED <<files, present, dirs, target, found, unsaved, faults, spoiled>>

(* A write fails, with nothing or a part of the line written.  Nobody tests *)
(* the stream: what follows writes nothing, and save_ohlcv returns true.    *)
write_fails(p) ==
  /\ at[p] = "header" \/ (at[p] = "rows" /\ unsaved[p] # <<>>)
  /\ faults < MaxFaults /\ faults' = faults + 1
  /\ files' = files \/ write(target[p], Torn)
  /\ spoiled' = IF at[p] = "header" THEN spoiled \cup {target[p]} ELSE spoiled
  /\ unsaved' = [unsaved EXCEPT ![p] = <<>>]
  /\ goto(p, "rows")
  /\ UNCHANGED <<present, dirs, target, found, saved>>

save_ohlcv(p) ==
  \/ save_check(p) \/ save_open(p) \/ save_returns_false(p) \/ save_header(p)
  \/ save_row(p) \/ save_returns_true(p)

(* The process ends, or dies, wherever it is; its memory is gone.           *)
leave(p) ==
  /\ spoiled' = IF at[p] = "header" THEN spoiled \cup {target[p]} ELSE spoiled
  /\ goto(p, "idle")
  /\ target' = [target EXCEPT ![p] = NoPath]
  /\ found' = [found EXCEPT ![p] = FALSE]
  /\ unsaved' = [unsaved EXCEPT ![p] = <<>>]
  /\ saved' = [saved EXCEPT ![p] = FALSE]
  /\ UNCHANGED <<files, present, dirs>>
=============================================================================
