------------------------------- MODULE ChiLink -------------------------------
(***************************************************************************)
(* The link layer between two CHI bridges (tlm2chi and chi2tlm): for each  *)
(* direction a pair of wires to activate and deactivate the link, and for  *)
(* each of its channels a TxChannel and an RxChannel that exchange flits   *)
(* for credits.  All threads of both bridges run at a clock edge and read  *)
(* the wires as the last edge left them.  The threads that call            *)
(* b_transport, and those that take what an RxChannel has received, run at *)
(* any time.  A packet is one flit; packets of a link are numbered.  A     *)
(* checker_ch_lcredits watches the wires of every channel.                 *)
(***************************************************************************)
EXTENDS Integers, Sequences

CONSTANTS Sides,       \* the two bridges
          Links,       \* pairs of a side that transmits and a channel
          Used,        \* bound: the links that packets are submitted to, whose
                       \* receiver may be slow; the others take at once
          MaxCredits,  \* MAX_CREDITS of an RxChannel
          MaxPackets,  \* bound: packets of a link
          MaxList,     \* bound: flits that a receiver may leave untaken
          MaxChanges,  \* bound: calls of SetPortState
          MaxResets    \* bound: resets

ASSUME LinkAssumption ==
    /\ \A l \in Links : l[1] \in Sides
    /\ MaxCredits \in Nat \ {0}
    /\ MaxPackets \in Nat /\ MaxList \in Nat /\ MaxChanges \in Nat /\ MaxResets \in Nat

Channels(s) == {l \in Links : l[1] = s}
Peer(s) == CHOOSE p \in Sides : p # s

VARIABLES req, ack,    \* link activation wires, by the side that transmits
          target,      \* m_state of PortState
          deactivate,  \* its deactivateTx
          credits,     \* m_credits of the TxChannel
          txList,      \* its packets
          created,     \* the flit of the first one has been created: Done()
          flit,        \* flitv with flit: none, a packet, or a returned credit
          avail,       \* m_credits of the RxChannel
          lcrdv,       \* the wire that grants a credit
          rxList,      \* packets received and not yet taken by GetNext
          counted,     \* m_credits of the LCrdMonitor of checker-chi.h
          submitted, taken, changes, resets   \* history and bounds

None == 0
LCrdReturn == MaxPackets + 1

portVars == <<req, ack, target, deactivate>>
txVars == <<credits, txList, created, flit>>
rxVars == <<avail, lcrdv, rxList>>
linkVars == <<portVars, txVars, rxVars, counted, submitted, taken, changes, resets>>

LinkInit ==
    /\ req = [s \in Sides |-> FALSE] /\ ack = [s \in Sides |-> FALSE]
    /\ target = [s \in Sides |-> "Run"] /\ deactivate = [s \in Sides |-> FALSE]
    /\ credits = [l \in Links |-> 0] /\ txList = [l \in Links |-> <<>>]
    /\ created = [l \in Links |-> FALSE] /\ flit = [l \in Links |-> None]
    /\ avail = [l \in Links |-> MaxCredits] /\ lcrdv = [l \in Links |-> FALSE]
    /\ rxList = [l \in Links |-> <<>>] /\ counted = [l \in Links |-> 0]
    /\ submitted = [l \in Links |-> 0] /\ taken = [l \in Links |-> 0]
    /\ changes = 0 /\ resets = 0

GetLinkState(s) ==
    IF req[s] THEN IF ack[s] THEN "Run" ELSE "Activate"
              ELSE IF ack[s] THEN "Deactivate" ELSE "Stop"

(***************************************************************************)
(* A clock edge: TxChannel::tx_thread.                                     *)
(***************************************************************************)
State(l) == GetLinkState(l[1])
Transmits(l) == State(l) \in {"Run", "Deactivate"}

\* Mutant: a credit that comes while the link is being deactivated is not seen.
Collected_Run(l) == credits[l] + (IF lcrdv[l] /\ State(l) = "Run" THEN 1 ELSE 0)
Collected(l) == credits[l] + (IF lcrdv[l] /\ State(l) # "Stop" THEN 1 ELSE 0)
\* Mutant: a packet stays on the list when its flit has been sent.
Waiting_Keep(l) == txList[l]
Waiting(l) == IF Transmits(l) /\ txList[l] # <<>> /\ created[l] THEN Tail(txList[l]) ELSE txList[l]

\* Mutant: a packet is sent without a credit.
SendsPacket_NoCredit(l) == Transmits(l) /\ Waiting(l) # <<>>
SendsPacket(l) == Transmits(l) /\ Collected(l) > 0 /\ Waiting(l) # <<>>
\* Mutant: credits are returned that are not there.
ReturnsCredit_Free(l) == State(l) = "Deactivate" /\ Waiting(l) = <<>>
ReturnsCredit(l) == State(l) = "Deactivate" /\ Collected(l) > 0 /\ Waiting(l) = <<>>

TxThread ==
    /\ credits' = [l \in Links |->
          IF SendsPacket(l) \/ ReturnsCredit(l) THEN Collected(l) - 1 ELSE Collected(l)]
    /\ txList' = [l \in Links |-> Waiting(l)]
    /\ created' = [l \in Links |-> IF Transmits(l) THEN SendsPacket(l) ELSE created[l]]
    /\ flit' = [l \in Links |->
          IF SendsPacket(l) THEN Head(Waiting(l))
          ELSE IF ReturnsCredit(l) THEN LCrdReturn
          ELSE IF State(l) = "Stop" THEN flit[l] ELSE None]

(***************************************************************************)
(* RxChannel::rx_thread.  Every flit is put on the list, the one that only *)
(* returns a credit too.                                                   *)
(***************************************************************************)
Receives(l) == flit[l] # None /\ State(l) # "Stop"
Freed(l) == avail[l] + (IF Receives(l) THEN 1 ELSE 0)
\* Mutant: credits are granted while the link is being deactivated.
Grants_Always(l) == State(l) # "Stop" /\ Freed(l) > 0
Grants(l) == State(l) \in {"Activate", "Run"} /\ Freed(l) > 0
Remaining(l) == IF Grants(l) THEN Freed(l) - 1 ELSE Freed(l)

RxThread ==
    /\ avail' = [l \in Links |-> Remaining(l)]
    /\ lcrdv' = [l \in Links |-> Grants(l)]
    /\ rxList' = [l \in Links |-> IF Receives(l) /\ l \in Used
                                  THEN Append(rxList[l], flit[l]) ELSE rxList[l]]

(***************************************************************************)
(* PortState::state_thread.  It may run before or after the threads of the *)
(* channels at an edge and so see a last credit at this edge or at the next*)
(***************************************************************************)
\* Mutant: one channel is enough.
RxChnlsDeactivated_Any(s) ==
    \E l \in Channels(s) : Remaining(l) = MaxCredits
RxChnlsDeactivated(s) ==
    \A l \in Channels(s) : Remaining(l) = MaxCredits

StateThread(acks) ==
    LET stops(s) == \/ deactivate[s] \/ target[s] = "Stop"
                    \/ GetLinkState(Peer(s)) = "Deactivate"
    IN
    /\ \A s \in acks : GetLinkState(s) = "Deactivate" /\ RxChnlsDeactivated(s)
    /\ \A s \in Sides :
          GetLinkState(s) = "Deactivate" /\ (\A l \in Channels(s) : avail[l] = MaxCredits)
              => s \in acks
    /\ ack' = [s \in Sides |-> IF GetLinkState(s) = "Activate" THEN TRUE
                               ELSE IF s \in acks THEN FALSE ELSE ack[s]]
    /\ req' = [s \in Sides |-> IF GetLinkState(s) = "Stop" THEN target[s] = "Run"
                               ELSE IF GetLinkState(s) = "Run" THEN ~stops(s) ELSE req[s]]
    /\ deactivate' = [s \in Sides |->
          /\ GetLinkState(s) # "Run"
          /\ \/ deactivate[s]
             \/ GetLinkState(s) = "Activate" /\ GetLinkState(Peer(s)) = "Deactivate"]

\* LCrdMonitor::Run.
Monitor ==
    counted' = [l \in Links |-> counted[l] - (IF flit[l] # None THEN 1 ELSE 0)
                                          + (IF lcrdv[l] THEN 1 ELSE 0)]

Clock ==
    /\ \A l \in Links : Len(rxList[l]) < MaxList
    /\ TxThread /\ RxThread /\ Monitor
    /\ \E acks \in SUBSET Sides : StateThread(acks)
    /\ UNCHANGED <<target, submitted, taken, changes, resets>>

(***************************************************************************)
(* The threads around the link, and reset.                                 *)
(***************************************************************************)
\* b_transport_tx*: TxChannel::Process.
Submit(l) ==
    /\ l \in Used /\ submitted[l] < MaxPackets
    /\ submitted' = [submitted EXCEPT ![l] = @ + 1]
    /\ txList' = [txList EXCEPT ![l] = Append(@, submitted[l] + 1)]
    /\ UNCHANGED <<portVars, credits, created, flit, rxVars, counted, taken, changes, resets>>

\* rx*_ch_thread: RxChannel::GetNext.
Take(l) ==
    /\ rxList[l] # <<>>
    /\ rxList' = [rxList EXCEPT ![l] = Tail(@)]
    /\ taken' = [taken EXCEPT ![l] = IF Head(rxList[l]) = LCrdReturn THEN @ ELSE @ + 1]
    /\ UNCHANGED <<portVars, txVars, avail, lcrdv, counted, submitted, changes, resets>>

SetState(s) ==
    /\ changes < MaxChanges
    /\ changes' = changes + 1
    /\ target' = [target EXCEPT ![s] = IF @ = "Run" THEN "Stop" ELSE "Run"]
    /\ UNCHANGED <<req, ack, deactivate, txVars, rxVars, counted, submitted, taken, resets>>

\* The credits outlive a reset, the wires and the lists do not.
Reset ==
    /\ resets < MaxResets
    /\ resets' = resets + 1
    /\ req' = [s \in Sides |-> FALSE] /\ ack' = [s \in Sides |-> FALSE]
    /\ flit' = [l \in Links |-> None] /\ lcrdv' = [l \in Links |-> FALSE]
    /\ txList' = [l \in Links |-> <<>>] /\ created' = [l \in Links |-> FALSE]
    /\ rxList' = [l \in Links |-> <<>>] /\ taken' = submitted
    /\ counted' = [l \in Links |-> 0]
    /\ UNCHANGED <<target, deactivate, credits, avail, submitted, changes>>

LinkNext ==
    \/ Clock \/ Reset
    \/ \E l \in Links : Submit(l) \/ Take(l)
    \/ \E s \in Sides : SetState(s)

LinkSpec == LinkInit /\ [][LinkNext]_linkVars

\* The clock runs, and the threads that take packets do not stop.
LinkFairSpec == LinkSpec /\ WF_linkVars(Clock) /\ \A l \in Links : WF_linkVars(Take(l))

(***************************************************************************)
(* Properties.                                                             *)
(***************************************************************************)
LinkTypeOK ==
    /\ req \in [Sides -> BOOLEAN] /\ ack \in [Sides -> BOOLEAN]
    /\ target \in [Sides -> {"Run", "Stop"}] /\ deactivate \in [Sides -> BOOLEAN]
    /\ credits \in [Links -> Nat] /\ avail \in [Links -> Nat]
    /\ lcrdv \in [Links -> BOOLEAN] /\ flit \in [Links -> 0 .. MaxPackets + 1]
    /\ txList \in [Links -> Seq(1 .. MaxPackets)] /\ created \in [Links -> BOOLEAN]
    /\ submitted \in [Links -> 0 .. MaxPackets] /\ counted \in [Links -> Int]
    /\ resets \in Nat

\* Credits in the TxChannel, in the RxChannel and on the wires.
Credits(l) ==
    credits[l] + avail[l] + (IF lcrdv[l] THEN 1 ELSE 0) + (IF flit[l] # None THEN 1 ELSE 0)

\* No credit is made up or lost over any number of activations, deactivations
\* and returned credits; only a reset, which clears the wires and keeps
\* m_credits of both channels, can lose one.
CreditsConserved ==
    \A l \in Links : Credits(l) <= MaxCredits /\ (resets = 0 => Credits(l) = MaxCredits)

\* A link that is stopped has no flit and no credit on its way: what tx_thread
\* and rx_thread would miss, since both ignore their wires in that state.
StoppedIsEmpty ==
    \A l \in Links : State(l) = "Stop" => flit[l] = None /\ ~lcrdv[l]

\* The monitor of the wires, which sees flits and credits but not the bridges,
\* counts what the TxChannel holds, and reports no error; after a reset, which
\* it takes for the loss of all credits, it may.
MonitorAgrees ==
    resets = 0 => \A l \in Links :
        /\ counted[l] = credits[l] + (IF flit[l] # None THEN 1 ELSE 0)
        /\ counted[l] \in 0 .. MaxCredits

\* The flits of a link in the order in which they are taken: received, on the
\* wires, and waiting.
OnWire(l) == IF flit[l] = None THEN <<>> ELSE <<flit[l]>>
Unsent(l) == IF txList[l] # <<>> /\ created[l] THEN Tail(txList[l]) ELSE txList[l]
Flits(l) == (rxList[l] \o OnWire(l)) \o Unsent(l)

\* Every packet submitted and not yet taken occurs in the sequence of flits,
\* and every flit but a returned credit is one of them, in ascending order.
Delivers(flits, before, last) ==
    /\ \A p \in before + 1 .. last : \E i \in 1 .. Len(flits) : flits[i] = p
    /\ \A i \in 1 .. Len(flits) : flits[i] # LCrdReturn => flits[i] \in before + 1 .. last
    /\ \A i, j \in 1 .. Len(flits) :
          i < j /\ flits[i] # LCrdReturn /\ flits[j] # LCrdReturn => flits[i] < flits[j]

\* Packets arrive once and in order, whatever activations, deactivations and
\* returned credits come between them.
InOrder == \A l \in Links : Delivers(Flits(l), taken[l], submitted[l])

\* Without a reset, two sides that are both told to stop come to rest with the
\* link stopped in both directions, and two that are told to run deliver what
\* was submitted.
LinkSettles ==
    /\ <>[](resets = 0 /\ \A s \in Sides : target[s] = "Stop")
            => <>[](\A s \in Sides : GetLinkState(s) = "Stop")
    /\ <>[](resets = 0 /\ \A s \in Sides : target[s] = "Run")
            => <>[](\A l \in Links : taken[l] = submitted[l])
=============================================================================
