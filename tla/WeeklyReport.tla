---------------------------- MODULE WeeklyReport ----------------------------
(***************************************************************************)
(* What the publication of a week promises, with no lease, transaction or  *)
(* process in sight.  A run calculates once.  It publishes at most once,   *)
(* and then the report, whole, becomes its calculation.  It gets at most   *)
(* one verdict: "published" only when it did publish, "withheld" only when *)
(* it did not and, from then on, never will.                               *)
(***************************************************************************)
CONSTANTS Runs, NoRun, Reports, EmptyReport

VARIABLES calculation,  \* what each run calculated; EmptyReport before
          report,       \* what the readers of the week see
          publisher,    \* the run the report came from
          published,    \* the runs that ever published
          verdict       \* what the run history says: "none" until it is final

reportVars == <<calculation, report, publisher, published, verdict>>

Init == /\ calculation = [r \in Runs |-> EmptyReport]
        /\ report = EmptyReport
        /\ publisher = NoRun
        /\ published = {}
        /\ verdict = [r \in Runs |-> "none"]

Calculate(r) ==
  /\ calculation[r] = EmptyReport
  /\ r \notin published
  /\ \E c \in Reports : calculation' = [calculation EXCEPT ![r] = c]
  /\ UNCHANGED <<report, publisher, published, verdict>>

Publish(r) ==
  /\ calculation[r] # EmptyReport
  /\ r \notin published
  /\ verdict[r] = "none"
  /\ report' = calculation[r]
  /\ publisher' = r
  /\ published' = published \cup {r}
  /\ UNCHANGED <<calculation, verdict>>

Declare(r) ==
  /\ verdict[r] = "none"
  /\ verdict' = [verdict EXCEPT ![r] = IF r \in published THEN "published"
                                                          ELSE "withheld"]
  /\ UNCHANGED <<calculation, report, publisher, published>>

Next == \E r \in Runs : Calculate(r) \/ Publish(r) \/ Declare(r)

Spec == Init /\ [][Next]_reportVars
=============================================================================
