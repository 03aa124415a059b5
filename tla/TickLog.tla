------------------------------ MODULE TickLog ------------------------------
(***************************************************************************)
(* What the transactional tick store promises to the clients that step one *)
(* simulation run: an append-only chain of frames, each of which starts in *)
(* the state the one before it ended in, and reports a client can trust.   *)
(* A client that is told of a frame finds exactly that frame in the chain, *)
(* and one request is told of ever later frames.                           *)
(***************************************************************************)
EXTENDS Integers, Sequences

CONSTANTS Clients,     \* those who ask for the run to be stepped
          Hashes,      \* the hashes a frame may start from and end in
          GenesisHash  \* the hash of the run's genesis frame

VARIABLES chain,  \* chain[t + 1] is the frame of tick t
          told    \* what each client's current request has been told

logVars == <<chain, told>>

Frame  == [start : Hashes, end : Hashes]
Report == [tick : Nat, end : Hashes]

Genesis == [start |-> GenesisHash, end |-> GenesisHash]

LogInit ==
    /\ chain = <<Genesis>>
    /\ told = [c \in Clients |-> <<>>]

\* The report of the frame of tick t.
ReportOf(t) == [tick |-> t, end |-> chain[t + 1].end]

\* A request is told of the frames in the order of their ticks.
LaterThanTold(c, t) == \A i \in 1..Len(told[c]) : told[c][i].tick < t

\* One frame is appended, from the hash the last one ended in.
Appended ==
    LET n == Len(chain) IN
    /\ Len(chain') = n + 1
    /\ chain'[n + 1] \in Frame
    /\ chain'[n + 1].start = chain[n].end
    /\ chain' = Append(chain, chain'[n + 1])

\* A frame is appended; whoever asked for it may never hear of it.
Extend == Appended /\ UNCHANGED told

\* A client is told of a frame that is in the chain.
Tell(c, t) ==
    /\ t + 1 \in 2..Len(chain)
    /\ LaterThanTold(c, t)
    /\ told' = [told EXCEPT ![c] = Append(@, ReportOf(t))]
    /\ UNCHANGED chain

\* A frame is appended and acknowledged at once.
ExtendAndTell(c) ==
    LET t == Len(chain) IN
    /\ LaterThanTold(c, t)
    /\ Appended
    /\ told' = [told EXCEPT ![c] = Append(@, [tick |-> t, end |-> chain'[t + 1].end])]

\* A client starts a new request, or its request dies with the server.
Forget(c) ==
    /\ told' = [told EXCEPT ![c] = <<>>]
    /\ UNCHANGED chain

LogNext ==
    \/ Extend
    \/ \E c \in Clients :
         \/ \E t \in 1..Len(chain) : Tell(c, t)
         \/ ExtendAndTell(c)
         \/ Forget(c)

LogSpec == LogInit /\ [][LogNext]_logVars
=============================================================================
