--------------------------- MODULE CoherentMemory ---------------------------
(***************************************************************************)
(* What the ACE system promises its initiators, whatever the caches and    *)
(* the interconnect do: there is one memory.  A store takes effect exactly *)
(* once, at one moment between its invocation and its return, and a load   *)
(* returns for every word a value that the memory held at some moment      *)
(* between its invocation and its return.  So the accesses to a word are   *)
(* linearizable.                                                           *)
(***************************************************************************)
EXTENDS AceProtocol

VARIABLES traffic, \* the load, one of Traffics
          mem,     \* the one memory
          op,      \* the access of each master, or NoOp
          applied, \* the masters whose store has taken effect
          seen,    \* for a pending load: the values its words held since
          reserved, \* for each cache: the words it loaded exclusively and no
                   \* other master has stored to since
          event    \* what the last step returned to an initiator

memVars == <<traffic, mem, op, applied, seen, reserved, event>>

NoEvent == [master |-> "none", data |-> Nothing, exokay |-> FALSE]

MemInit ==
    /\ traffic \in Traffics
    /\ mem = [a \in Addr |-> InitValue]
    /\ op = [m \in Masters |-> NoOp]
    /\ applied = {}
    /\ seen = [m \in Masters |-> Nothing]
    /\ reserved = [c \in Caches |-> {}]
    /\ event = NoEvent

Written(o) == [a \in Addr |-> IF a \in o.rng THEN o.val ELSE mem[a]]

\* What every pending load has seen once this step is over.
Observe ==
    seen' = [m \in Masters |->
        IF op'[m].kind \notin LoadKinds THEN Nothing
        ELSE [a \in op'[m].rng |->
                 {mem'[a]} \cup IF op[m] = NoOp THEN {} ELSE seen[m][a]]]

Invoke(m) ==
    /\ op[m] = NoOp
    /\ \E o \in traffic[m] : op' = [op EXCEPT ![m] = o]
    /\ event' = NoEvent
    /\ UNCHANGED <<mem, applied, reserved>>

\* Store o of m takes effect; an exclusive one ends its own reservation too.
Write(m, o) ==
    /\ mem' = Written(o)
    /\ reserved' = [c \in Caches |-> IF c # m \/ IsExclusive(o)
                                     THEN reserved[c] \ o.rng ELSE reserved[c]]

\* The store of m takes effect and its initiator does not know yet.
Apply(m) ==
    /\ op[m].kind \in StoreKinds /\ m \notin applied
    /\ Write(m, op[m])
    /\ applied' = applied \cup {m}
    /\ event' = NoEvent
    /\ UNCHANGED op

ReturnLoad(m, o, was) ==
    /\ o.kind \in LoadKinds
    /\ event'.master = m
    /\ DOMAIN event'.data = o.rng
    /\ \A a \in o.rng : event'.data[a] \in was[a]
    /\ reserved' = IF IsExclusive(o) THEN [reserved EXCEPT ![m] = @ \cup o.rng]
                                     ELSE reserved
    /\ UNCHANGED mem

\* A plain store takes effect now if it has not before.
ReturnStore(m, o) ==
    /\ o.kind = "Store"
    /\ event' = NoEvent
    /\ IF m \in applied THEN UNCHANGED <<mem, reserved>> ELSE Write(m, o)

\* An exclusive store takes effect exactly if it reports EXOKAY, and it may
\* do so only if no other master stored to its words since its exclusive load.
ReturnStoreEx(m, o) ==
    /\ o.kind = "StoreEx"
    /\ event' = [master |-> m, data |-> Nothing, exokay |-> event'.exokay]
    /\ IF event'.exokay THEN o.rng \subseteq reserved[m] /\ Write(m, o)
                        ELSE UNCHANGED <<mem, reserved>>

ReturnCmo(o) ==
    /\ o.kind \in CmoKinds
    /\ event' = NoEvent
    /\ UNCHANGED <<mem, reserved>>

Return(m, o, was) ==
    /\ op' = [op EXCEPT ![m] = NoOp]
    /\ applied' = applied \ {m}
    /\ ReturnLoad(m, o, was) \/ ReturnStore(m, o) \/ ReturnStoreEx(m, o) \/ ReturnCmo(o)

Respond(m) == op[m] # NoOp /\ Return(m, op[m], seen[m])

\* An access that hits in the cache is invoked and returns in one step.
Immediate(m) ==
    /\ op[m] = NoOp
    /\ \E o \in traffic[m] : Return(m, o, [a \in o.rng |-> {mem[a]}])

\* A step of the system that no initiator sees ends the last event.
Quiet == event' = NoEvent /\ UNCHANGED <<mem, op, applied, reserved>>

MemNext ==
    /\ \/ \E m \in Masters : Invoke(m) \/ Apply(m) \/ Respond(m) \/ Immediate(m)
       \/ Quiet
    /\ Observe
    /\ UNCHANGED traffic

MemSpec == MemInit /\ [][MemNext]_memVars
=============================================================================
