---------------------------- MODULE SessionLine ----------------------------
(***************************************************************************)
(* What refresh-token rotation promises, without requests or SQL: each     *)
(* login opens one line of tokens.  A line has at most one valid token at  *)
(* a time, a token is handed in before its successor is handed out, no     *)
(* token is valid twice, and an ended line never comes back.               *)
(***************************************************************************)
CONSTANTS Family, Token

VARIABLES
    line,     \* by family: its phase (none, live, busy: its token is handed in, or
              \* ended) and the set of tokens that would be accepted now
    spent     \* tokens that were valid once

vars == <<line, spent>>

Empty(phase) == [phase |-> phase, valid |-> {}]
Holding(t) == [phase |-> "live", valid |-> {t}]

\* Tokens that were never valid.
Unused == Token \ (spent \cup UNION {line[f].valid : f \in Family})

Init ==
    /\ line = [f \in Family |-> Empty("none")]
    /\ spent = {}

\* A login (none) or a rotation (busy) hands out a new token.
Grant(f) ==
    /\ line[f].phase \in {"none", "busy"}
    /\ \E t \in Unused : line' = [line EXCEPT ![f] = Holding(t)]
    /\ spent' = spent

\* The valid token is handed in for rotation, or the line ends.
Leave(f) ==
    /\ line[f].phase = "live"
    /\ \E phase \in {"busy", "ended"} : line' = [line EXCEPT ![f] = Empty(phase)]
    /\ spent' = spent \cup line[f].valid

\* A rotation is given up: the line ends.
GiveUp(f) ==
    /\ line[f].phase = "busy"
    /\ line' = [line EXCEPT ![f] = Empty("ended")]
    /\ spent' = spent

Next == \E f \in Family : Grant(f) \/ Leave(f) \/ GiveUp(f)

Spec == Init /\ [][Next]_vars
=============================================================================
