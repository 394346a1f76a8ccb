--------------------------- MODULE ConnectionLife ---------------------------
(***************************************************************************)
(* What a TcpServer promises of each of its connections: the user's        *)
(* connectionCallback_ is called when it comes up and once more when it is *)
(* down, and only then is the object freed.  A server that ends may cut    *)
(* this short.  Several connections may move in one step, and one          *)
(* connection through two phases: what a thread does without giving        *)
(* anything up is one step here.                                           *)
(***************************************************************************)
EXTENDS Naturals, Sequences

CONSTANT Conns

VARIABLES place,    \* conn -> "none", "alive" or "freed"
          reports,  \* conn -> what connectionCallback_ saw of it, in order
          ending    \* the server's end has begun

lifeVars == <<place, reports, ending>>

Init ==
    /\ place = [c \in Conns |-> "none"]
    /\ reports = [c \in Conns |-> <<>>]
    /\ ending = FALSE

Whole == <<"up", "down">>

\* A connection stays where it is, is accepted, or is freed.
Moves(c) ==
    \/ place'[c] = place[c]
    \/ place[c] = "none" /\ place'[c] = "alive"
    \/ /\ place[c] = "alive" /\ place'[c] = "freed"
       /\ reports'[c] = Whole \/ ending

\* The callback is called for an object that is alive when it is called, first
\* with "up", then with "down".
Reports(c) ==
    \/ reports'[c] = reports[c]
    \/ /\ Len(reports[c]) < Len(Whole)
       /\ reports'[c] = Append(reports[c], Whole[Len(reports[c]) + 1])
       /\ place[c] = "alive" \/ place'[c] = "alive"

Next ==
    /\ ending => ending'
    /\ place' \in [Conns -> {"none", "alive", "freed"}]
    /\ reports' \in [Conns -> {<<>>, <<"up">>, Whole}]
    /\ \A c \in Conns : Moves(c) /\ Reports(c)

Spec == Init /\ [][Next]_lifeVars
=============================================================================
