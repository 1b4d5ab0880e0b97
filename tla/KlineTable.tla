----------------------------- MODULE KlineTable -----------------------------
(* What saving bars promises: per path a table of rows that only grows; a   *)
(* save adds its rows once each and in order, and who is told that its rows *)
(* are saved has no row left to add.  No files that may be missing, no      *)
(* headers, no half lines: of those only that a save can lose its rows (the *)
(* disk is full) and then damage the table's end, which costs the next row. *)
EXTENDS Sequences

CONSTANTS Procs, Paths, Bars,
          NoPath   \* where a process without a save saves to

VARIABLES table,    \* path -> rows
          rows,     \* process -> rows its save has still to add
          into,     \* process -> the path it saves to
          saving,   \* the processes with a save under way
          told,     \* the processes told that their rows are saved
          damaged   \* the paths whose table ends in half a line

vars == <<table, rows, into, saving, told, damaged>>

Init ==
  /\ table = [path \in Paths |-> <<>>]
  /\ rows = [p \in Procs |-> <<>>] /\ into = [p \in Procs |-> NoPath]
  /\ saving = {} /\ told = {} /\ damaged = {}

Begin(p) ==
  /\ p \notin saving /\ saving' = saving \cup {p}
  /\ rows' = [rows EXCEPT ![p] = rows'[p]] /\ rows'[p] \in Seq(Bars)
  /\ into' = [into EXCEPT ![p] = into'[p]] /\ into'[p] \in Paths
  /\ UNCHANGED <<table, told, damaged>>

(* A row added to a damaged end is lost with it.                            *)
Put(p) ==
  /\ p \in saving /\ rows[p] # <<>>
  /\ rows' = [rows EXCEPT ![p] = Tail(@)]
  /\ IF into[p] \in damaged
     THEN UNCHANGED table
     ELSE table' = [table EXCEPT ![into[p]] = Append(@, Head(rows[p]))]
  /\ damaged' = damaged \ {into[p]}
  /\ UNCHANGED <<into, saving, told>>

Repair(p) ==
  /\ p \in saving /\ damaged' = damaged \ {into[p]}
  /\ UNCHANGED <<table, rows, into, saving, told>>

Lose(p) ==
  /\ p \in saving /\ rows' = [rows EXCEPT ![p] = <<>>]
  /\ damaged' \in {damaged, damaged \cup {into[p]}}
  /\ UNCHANGED <<table, into, saving, told>>

Finish(p) ==
  /\ p \in saving /\ rows[p] = <<>>
  /\ saving' = saving \ {p} /\ told' = told \cup {p}
  /\ UNCHANGED <<table, rows, into, damaged>>

(* The save is refused, or its process ends, of itself or by a crash.       *)
Abandon(p) ==
  /\ saving' = saving \ {p} /\ told' = told \ {p}
  /\ rows' \in {rows, [rows EXCEPT ![p] = <<>>]}
  /\ into' \in {into, [into EXCEPT ![p] = NoPath]}
  /\ UNCHANGED <<table, damaged>>

Next == \E p \in Procs :
  Begin(p) \/ Put(p) \/ Repair(p) \/ Lose(p) \/ Finish(p) \/ Abandon(p)

Spec == Init /\ [][Next]_vars
=============================================================================
