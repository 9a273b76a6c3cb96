--------------------------- MODULE SlidingWindow ---------------------------
(***************************************************************************)
(* An exact sliding-window limiter: every client may make Allowed requests *)
(* in any Window ticks, and is refused exactly when it has made them.      *)
(***************************************************************************)
EXTENDS Integers, Sequences

CONSTANTS Clients, Allowed, Window

VARIABLES
    recent,     \* ages of each client's admitted requests, none above Window
    verdict     \* on the last request

windowVars == <<recent, verdict>>

Init ==
    /\ recent = [c \in Clients |-> <<>>]
    /\ verdict \in [client : Clients, allowed : {TRUE}]

Admit(c) ==
    /\ Len(recent[c]) < Allowed
    /\ recent' = [recent EXCEPT ![c] = Append(@, 0)]
    /\ verdict' = [client |-> c, allowed |-> TRUE]

Refuse(c) ==
    /\ Len(recent[c]) = Allowed
    /\ verdict' = [client |-> c, allowed |-> FALSE]
    /\ UNCHANGED recent

\* Time passes for every client: of its requests, the k that are Window old
\* leave, and the others go on in their order.
Age(c) ==
    \E k \in 0..Len(recent[c]) :
        /\ \A i \in 1..Len(recent[c]) : recent[c][i] = Window <=> i <= k
        /\ recent'[c] = [i \in 1..(Len(recent[c]) - k) |-> recent[c][i + k] + 1]

Tick ==
    /\ DOMAIN recent' = Clients
    /\ \A c \in Clients : Age(c)
    /\ UNCHANGED verdict

Next == Tick \/ \E c \in Clients : Admit(c) \/ Refuse(c)

Spec == Init /\ [][Next]_windowVars

=============================================================================
