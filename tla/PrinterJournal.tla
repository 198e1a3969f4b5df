-------------------------- MODULE PrinterJournal --------------------------
(***************************************************************************)
(* The printer agent's local journal (printeragent/journal.go): a file of  *)
(* JSON lines, appended to and fsynced, and the map that OpenJournal builds *)
(* from it.  The last readable line of a job wins.                         *)
(*                                                                         *)
(* A journal is a record:                                                  *)
(*   disk  what OpenJournal would read back for each job                   *)
(*   mem   the states map of the running process                           *)
(*   torn  the file ends in the middle of a line: an append that was cut   *)
(*         short (full disk, power loss) left no newline behind            *)
(***************************************************************************)
CONSTANT Jobs

JournalState == {"none", "submitted", "failed", "completed"}

Journal == [disk : [Jobs -> JournalState],
            mem  : [Jobs -> JournalState],
            torn : BOOLEAN]

EmptyJournal == [disk |-> [j \in Jobs |-> "none"],
                 mem  |-> [j \in Jobs |-> "none"],
                 torn |-> FALSE]

(* OpenJournal: a new process rebuilds the map from the file. *)
Opened(jr) == [jr EXCEPT !.mem = jr.disk]

(* A whole line reaches the file.  After a torn line the new entry extends  *)
(* the fragment, json.Unmarshal refuses the fused line, and OpenJournal     *)
(* skips it without an error; the newline it ends with heals the file.      *)
Appended(jr, j, s) == IF jr.torn THEN [jr EXCEPT !.torn = FALSE]
                                 ELSE [jr EXCEPT !.disk[j] = s]

(* Record returned nil: the line was written and synced, then the map set.  *)
Recorded(jr, j, s) == [Appended(jr, j, s) EXCEPT !.mem[j] = s]

(* Record returned an error: nothing was written, the line was cut short,   *)
(* or it is whole and Sync or Close failed.  The map keeps its old value.   *)
RecordFailures(jr, j, s) == {jr, [jr EXCEPT !.torn = TRUE], Appended(jr, j, s)}

(* The states that Tick reads as "already crossed the submission boundary". *)
Crossed == {"submitted", "completed"}
===========================================================================
