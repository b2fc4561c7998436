# A TLA+ model of libsystemctlm-soc

libsystemctlm-soc is a library of SystemC/TLM-2.0 modules for co-simulating
QEMU, SystemC models and RTL.  The parts with the most intricate logic of their
own are the two cache coherent systems, ACE and CHI, with their caches,
interconnects, bridges and protocol checkers; the AXI bridges under ACE; and the
CCIX port that joins two CHI chips.  These are modelled here.

## Inventory

| Part | State | Operations | Hard because |
|---|---|---|---|
| `cache_ace` (tlm-modules/cache-ace.h) | cachelines, `m_toggle`, exclusive monitor, outstanding payload, `m_mutex` | loads, stores, maintenance, snoops | a snoop changes the line an access waits for; copybacks hold snoops back |
| `iconnect_ace` (iconnect-ace.h) | ongoing and stalled transactions, fifos, snoop transactions, PoS monitor | ports, `process`, `restart_overlapping`, snoop engine, downstream port | several threads serve one transaction in turn |
| `BarrierProcesser` (bp-ace.h) | the barrier under way, an event | `b_transport`, a spawned thread | an event that is notified too early |
| `cache_chi`, transactions (cache-chi.h, private/chi) | cachelines, transaction IDs, one transaction, snoops to answer, DVM | loads, stores, evictions, responses, data, snoops | answers come on channels of different speed, and snoops in between |
| `iconnect_chi` (iconnect-chi.h) | request list, request under way, snoop filters, transactions by ID, retry flags | requests, snoops and their answers, slave node, retries, DCT, DMT | three parties answer one request in any order |
| `SlaveNode_F` (sn-chi.h) | list of reads and writes, retries | reads, writes, atomics | retry and credit cross |
| CHI bridges, link layer (tlm-bridges, private/chi) | credits, lists, `PortState`, wires | transmit, receive, activate, deactivate, reset | two state machines that see each other a clock late |
| AXI bridges (tlm2axi-bridge.h, axi2tlm-bridge.h) | transactions by ID, fifos, counters, barriers | five channels, TLM threads, reset | bursts of all shapes; order by ID, page and barrier |
| CCIX port (private/ccix/ccixport.h) | transactions, two credit accounts, IDs, snoop filter | translation of requests, data, snoops; transmission | two translations and two protocols that must agree |
| CXS bridge (private/ccix/pkts.h, rxlink.h, txlink.h) | assembler | pack, cut into flits, assemble, unpack | lengths and places derived anew on each side |
| Checkers (checkers/) | their own account of what is outstanding | sample, check | must accept every flow the system has |
| Everything else: remote-port, small bridges, helper modules, SoC models, traffic generators, RTL bridges, tools | see `components` in PROJECT.json | | |

Components interact by blocking calls (`b_transport` over TLM sockets), by
signals that are read at a clock edge, by SystemC fifos and by events.  SystemC
is cooperative: a thread runs until it calls `wait()`, so an interleaving is a
choice of the next thread at each wait.

What makes each part correct:

* a cache writes a line in place only when no other cache has a copy, at most
  one cache is responsible for dirty data, and copies are current;
* the ACE interconnect never serves two snooping transactions for the same bytes
  at once and never forgets a stalled one;
* together they are one memory: stores take effect once, loads return what
  memory held meanwhile, exclusive stores succeed only undisturbed, and every
  access returns;
* the CHI home node knows every holder, and no answer finds a transaction that
  does not wait for it;
* the checkers say nothing about a system that works;
* credits and IDs are neither lost nor made up; packets arrive once and in order;
* a payload that goes through AXI is the same at the other end, in an order
  that its ID, address and barriers ask for;
* a CCIX message means at one end what it meant at the other.

The places where this is hard to test are the `hazards` of PROJECT.json.

## Modules

| Module | Models |
|---|---|
| `AceProtocol` | transaction kinds and the predicates of amba-ace.h and `Transaction` over them; accesses of the initiators |
| `AceCache` | `cache_ace`: lookup, snoop handlers, WriteBack and WriteThrough loops, maintenance, what each response does |
| `AceInterconnect` | `iconnect_ace` and the ordering rules of the bridges in front of it |
| `AceChecker` | checker-ace.h on the port of each master: transactions, snoops and their answers, snoop data |
| `AceSystem` | the composition, one action per thread; history variables; properties |
| `CoherentMemory` | what the ACE system promises: the abstract specification |
| `AddressRange`, `TxOrderer` | address arithmetic of `Transaction`; `OverlappingTxOrderer` on its own, which `AceSystem` implements |
| `AceBarrier` | `BarrierProcesser` |
| `ChiProtocol` | opcodes and their classes, responses, messages |
| `ChiCache` | `cache_chi` and txns-rn.h: core thread, channel callbacks, a handler for every snoop |
| `ChiHome` | `iconnect_chi` without CCIX: `RequestOrderer`, `TxnProcessor`, `PointOfCoherence`, ports |
| `ChiSlave` | `SlaveNode_F` and its memory |
| `ChiFlit` | the fields of the four kinds of flits: the bridges put them in, the other bridge and the checker take them out |
| `ChiChecker` | checker-chi.h on the port of each requester |
| `ChiSystem` | their composition, history variables and properties |
| `ChiLink` | `TxChannel`, `RxChannel`, `PortState` of two CHI bridges and `checker_ch_lcredits` |
| `AxiBurst` | the bytes of a payload on the lanes of the beats, on both sides |
| `AxiMaster`, `AxiSlave` | `tlm2axi_bridge`, `axi2tlm_bridge` |
| `AxiChecker` | checker-axi.h, and in ACE mode the AXI part of checker-ace.h |
| `AxiSystem` | the two bridges joined, the order of the channels' handshakes, properties |
| `CcixMsg` | the translation between CHI and CCIX, both ways |
| `CcixFlit` | messages, TLPs and flits of the CXS bridges |
| `CcixPort` | two chips: `CCIXPort`, `CCIXLink` and what requesters and homes do to them |
| `TxOrderer_proofs`, `ChiLink_proofs`, `AceBarrier_proofs` | theorems about these modules |
| `AceCoherence_proofs`, `AceData_proofs` | theorems about `AceSystem`: types, bookkeeping, lock, refinement, who holds a line, and what the checkers know of that; what is in it |
| `AxiOrder_proofs` | theorems about `AxiSystem`: the order in which the target sees transactions, the counters of the slave |
| `ChiPhases_proofs`, `ChiCoherence_proofs` | theorems about `ChiSystem`: the phases of a request and what is on every channel; who holds which line |
| `MCAceSystem`, `MCTxOrderer`, `MCChi`, `MCChiLink`, `MCAxi`, `MCCcix` | instances for TLC |

`AceSystem` extends cache, interconnect and checker of ACE; `ChiSystem` those of
CHI, with the slave node.  The link layer is a module of its own: what
`ChiSystem` needs of it, channels that keep their order and stop only for a
while, is what `InOrder` and `LinkSettles` of `ChiLink` say.  `CcixPort` takes
the requesters and the homes at its two ends as `ChiCache` and `ChiHome`
describe them, reduced to what a port can see.

### How state and actions correspond to the code

**ACE: a step is what one thread does between two waits.**  `b_transport` of a
cache holds `m_mutex` throughout and its thread waits only inside `exec_tlm_gp`.
So `CacheStart` runs the access until its first transaction (or to its end, when
it hits), and `CacheResume` takes the response, goes on through the loop of
`handle_load` / `handle_store`, and issues the next transaction or returns.
`AceCache` computes such a step as a record (the line, toggle and monitor it
leaves, the transaction it issues); `want` is what is left on the call stack
when `evict_line` waits for a copyback.

`tx[m]` is the one transaction of master `m`, with a phase that says where it is
(crossing the bridges, stalled, in the engine's fifo, being snooped, in the
downstream fifo, on its way back).  The order of the stalled list and of the
engine's fifo is kept as a relation, `older`, so that states that differ only in
irrelevant order coincide.  What the waiter of `DoneEvent` does is part of the
step that notifies it.  The access of the downstream slave and its `DoneEvent`
are one step, because no other thread touches that slave.  The ace2tlm bridge
lists responses and snoops in `m_overlapList` and lets a snoop go only when no
earlier entry overlaps it; `overlap[c][l]` is that list for a line.

**CHI: a step is one call of a channel callback, or what the core thread does
between two waits.**  `stage` is the place of the core thread, `txn` its
transaction, `access` what it was asked for.  `up` and `down` are the channels
between a requester and the home node, `toSN`, `snData` and `fromSN` those to the
slave node; each is in order and no two are ordered with one another, but for one
assumption.  The home node ends a write when it has put the data on `snData`, and
sends requests by another thread (`TxReqChannel`, `TxDatChannel`,
`iconnect-chi.h:1610-1659`), so a read may reach the slave node before the data does
and return what was there before.  `inOrder`, a field of `mode`, says whether a request
waits for data that was sent before it.  Every load of `chi_safety` is run both ways:
`RestIsCoherent` and `LoadsAreCurrent` are stated for `inOrder`, without which TLC refutes
them, all other properties for both; `chi_liveness` runs without it, `chi_direct`, which is about
another error, with it.  With one flit to a line, the default, and the order in which the
kernel runs threads, data does get there first; with a narrower `DATA_WIDTH` it takes
several clocks and the request one.  The theorems do not use it.  `cur` is
the request that `RequestOrderer` runs, one at a time, with the flags of
`ReqTxn`.  A core thread whose transaction is complete runs before anything else
(`Quiet`): its event is notified immediately.  Choices by `rand()` in the code
(the opcode of a miss, dirty or clean eviction) are choices of the action.
Retry by the home node or the slave node is always possible.

A message passes through `ChiFlit` where it enters the monitor and where it
enters a node: its fields are laid out and taken apart by the code's own order of
`m_pos`.  Layouts are evaluated once for all messages of an instance (tables
such as `SeenReqs`), because they are functions of the message alone.

Of the length of a payload the model keeps what the code's conditions read: whether
the request to the slave node is for a line (`WholeLine`), which for an atomic depends on
whether a snoop has brought the line, and how many bytes a requester counts of the
result of an atomic (`Counted`).  A whole-line atomic does to memory what `HandleAtomic` does
with 64 bytes; byte enables and data that the code never initialises may be anything
(`SNEnables`, `junk`).

**CHI link.**  `Clock` is an edge: all threads of both bridges, each reading the
wires as the last edge left them; `Submit` and `Take` are the threads around the
link, `SetState` the change of `PortState` by a user, `Reset` the reset of both
sides.  A history variable numbers the packets.

**AXI.**  A handshake is one step of both bridges, taken when both are ready;
between handshakes each bridge does what its threads do without waiting.
`TlmStart` and `TlmEnd` are the two ends of the call that the slave makes to the
target.  Payloads carry the names of their bytes as data, so that `PayloadsArrive`
sees each byte that goes astray.

**CCIX.**  `ReceiveCCIX` and the calls from the router are one step each, up to
the wait in `TransmitTxn`; what the thread does after it is in the message's
`after`.  A message on the link carries, beside what travels, the CHI message
that the sender meant, which no action reads.  The home's further work (snooping
its other nodes, memory) is `ReadResps`, `Written`: any answer CHI allows.

## Runs

Passing runs (names as in PROJECT.json):

| Run | Instance | Shows |
|---|---|---|
| `write_back` | 2 WriteBack caches, 2 lines of 2 words in one slot; stores to part and all of a line; or exclusives against plain accesses | `UniqueIsAlone`, `OneOwner`, `LockHasOwner`, `Linearizable` |
| `mixed` | WriteBack, WriteThrough and ACE-Lite: whole lines, bursts over two lines, maintenance, a non-shareable line | `CopiesAreCurrent`, `AceCheckerIsSilent`, `Linearizable` |
| `liveness` | all three kinds of masters, one data value | `AccessCompletes`; `ImplementsOrderer`: the interconnect implements `TxOrderer` |
| `orderer` | 4 transactions of every class over 3 bytes | `StalledHasBlocker`, `SnoopingDisjoint`, `OrdInv` |
| `barrier` | a barrier thread and 2 others | `PairAnswersBoth` |
| `chi_safety` | 2 caches, home, slave node, a requester without cache; 6 modes with `inOrder` and without it, 1 without | `ChiUniqueIsAlone`, `FilterCoversHolders`, `MessagesAreExpected`, `OneSlaveRequest`, `CheckerIsSilent`; with `inOrder` `RestIsCoherent`, `LoadsAreCurrent` |
| `chi_liveness` | fewer accesses of the kinds of `chi_safety` | `ChiAccessCompletes` |
| `chi_link` | two channels one way, one the other; 2 credits, 2 packets, 2 changes of state, 1 reset | `CreditsConserved`, `StoppedIsEmpty`, `InOrder`, `MonitorAgrees`, `LinkSettles` |
| `axi` | one transaction of every shape; up to 3 together with equal and different IDs and pages; barriers; a reset | `PayloadsArrive`, `TlmOrder`, `AxiCheckerIsSilent`, `AxiCompletes` |
| `ccix` | every request and snoop by itself in every state of the line; combinations that meet | `LookupsSucceed`, `NothingLeaks`, `TranslationKeeps`, `CopiesAreKnown`, `CcixCompletes` |

Type invariants (`TypeOK`, `BarTypeOK`, `ChiTypeOK`, `LinkTypeOK`, `AxiTypeOK`)
are checked in one run each.

Runs in which TLC refutes what a comment or a test says:

* `exclusive_failed`: a failed exclusive CleanUnique leaves a line unique that is not;
* `chi_direct`: with direct cache transfer of a dirty line to a read that
  allocates, nobody writes the data back, and it is lost with the last copy.

The findings in PROJECT.json quote the lines.

**Bounds.**  Two caches are enough for the two sides of every snoop, a third
master for two transactions to meet at a third party and for a stalled
transaction to be passed.  Two lines in one slot make every fetch an eviction;
two words make stores partial; two lines make ACE-Lite transfers segmented.
Values name the storing master, so that a lost or doubled store shows.  In
`liveness` data plays no role and one value is used.  For the orderer, three bytes
give ranges that are equal, disjoint and adjacent, that overlap in part and that
contain each other with and without a common end.  Its properties are stated with
the comparison of the code; that this finds every overlap is theorem `OverlapIsExact`,
and TLC adds only that it is symmetric (`OrdererAssumption`).  In CHI an instance (`Mode`) says which opcodes are chosen from
and how many accesses each requester makes (at most two): one to bring a line and
one that meets the other's.  `NumIDs` (4) bounds stashes with DataPull, which keep
their ID.  The link has two credits and two packets, so that credits run out and
come back; `MaxList` bounds the receiver's list and stops the clock of the model,
as a slow reader does.  An AXI bus has 4 bytes, a page 16, a burst at most 4
beats, and the slave takes 2 transactions, so that a third one waits.  CCIX has 2
lines, 2 credits of each kind, 1 credit to a message and 6 IDs in a chip, more
than are in use at a time: the run says nothing of the deadlock when IDs run out
(`ccixport.h:2911`), nor of a counter of credits that wraps (`ccixport.h:2622`).

**What the traffic leaves out**, each with a reason:

* MakeInvalid, which may discard data by definition, and CleanInvalid by an ACE
  cache that may hold the line dirty (it drops the data, a listed hazard);
* exclusive accesses by two caches at once, beside the violation run;
* two ACE WriteUniques for different words of a line that a cache holds dirty: the
  orderer compares bytes, both may then write the whole line back, and a word is
  lost (`iconnect-ace.h:849`);
* direct cache transfer for reads that allocate, beside the violation run;
* CHI caches that use several words of a line they both store to: a snoop may
  invalidate a line while its CleanUnique is under way, and `Comp_UC` makes it
  valid again with the data of before (`txns-rn.h:748`).  With such traffic TLC
  refutes `RestIsCoherent` and `LoadsAreCurrent`;
* CHI atomics of a line that a cache holds, but for an AtomicStore in `chi_safety` without
  `inOrder`.  `CopySnpData` sets the length of the request to a line
  (`iconnect-chi.h:666`) and nothing sets it back: the slave node's `DoAdd` has no case for 64
  bytes, and the requester of a result never counts the bytes of its operand.  The model has all of
  this; with `AtomicsHeld` in the place of `Held`, and deadlock checking on, TLC finds that the
  access never ends, and its data is never what was asked for;
* the byte enables of a line written in part over CCIX: `CopyData` fills them from the data
  (`ccixport.h:715`), so that `TranslationKeeps`, were it to compare them, would not hold.
  They are modelled (`CopyByteEnables`) as far as they have to survive the flits;
* CCIX writes of at most 8 bytes with byte enables: their data is shifted by the
  word that `ParseByteEnables` does not step over (`private/ccix/pkts.h:325`);
* CCIX reads of normal memory that are shorter than a line and not aligned to their size:
  the place of their data is computed twice and the second time without the alignment
  (`ccixport.h:1520`).  Accesses shorter than a line come from CHI requesters outside
  the repository only; `ReadTxn` and `WriteTxn` use whole lines;
* CCIX requests to device memory with neither Endpoint_Order nor EWA, which
  `GetReqAttrMemType` asserts not to exist (`ccixport.h:515-519`), and device data whose length
  is above 8 and no multiple of four, with which `PlaceData` does not end (`pkts.h:519`);
* ACE stores of the length of a line with bytes disabled: the cache asks for a line by length
  (`cache-ace.h:1406`) and writes by byte enables (`cache-ace.h:947-956`); `FullLine` stands for
  both, because the accesses of the model enable every byte of their range;
* AXI payloads for which `SetupBurstType` reports "Unsupported burst type"
  (`tlm2axi-bridge.h:326-329`): `Supported`, in `ScenarioAssumption`;
* narrow AXI writes of more than a beat, and resets while barriers are under way
  (`axi2tlm-bridge.h:413` and `858`);
* AXI writes with a burst width above their streaming width: `SetupNumBeats` divides
  by the one, `prepare_wbeat` cuts the beats by the other, so AxLEN announces fewer
  beats than the payload needs (`tlm2axi-bridge.h:312`).

**Fairness.**  A SystemC kernel runs every runnable thread before time advances:
weak fairness of every thread's step.  In ACE a snoop handler that waits for
`m_write_done_event` is made runnable by every notification and then looks at
`write_ongoing` again: strong fairness of `SnoopMaster`.  Initiators are not fair:
they need not make any access.  In CHI each channel delivers and each node takes
its steps (weak fairness).  On the link the clock runs and the threads that take
packets do not stop; nobody has to submit, change a state or reset.  For the AXI
bridges and the CCIX port it is enough that some step is taken while one can be
(weak fairness of `Progress` and `CcixNext`): their scenarios are finite, so
that only a deadlock keeps a transaction from its end.  These two runs, whose
scenarios end, do not check TLC's deadlock; `AxiCompletes` and `CcixCompletes` do.

## Abstract specifications

`Linearizable` says that `AceSystem` implements `CoherentMemory`, under the
mapping `mem <- latest` (what the last store to take effect left) and
`applied <- Applied` (stores done downstream whose response is under way).  The
history variables `latest`, `seen`, `reserved` and `event` record effects and
returns; no guard reads them.  The only freedom a load has is the set of values
its words held since its invocation, so a stale copy that is read after a newer
store returned is a violation.

`ImplementsOrderer` says that the phases of `AceSystem` implement `TxOrderer`,
where a transaction's range is the set of its words and overlap is a common
word.  `OverlapIsExact` says that this is what the code's comparison computes.

For CHI the same promise is stated over the history variables: `latest` is what
the last store left, `seen` the values that the words of an access had since it
began, `LoadsAreCurrent` that a load returns one of them.

## Proofs

`TxOrderer_proofs` proves, for any set of transactions, any ranges and any
symmetric overlap test (`OrdererAssumption`):

* `OrdererInvariant`: `OrdSpec => []OrdInv`;
* `OrdererTypeOK`, `NoLostWakeUp`, `SnoopingApart`: its consequences;
* `OverlapIsExact`, `OverlapIsSymmetric`: for all addresses and non-zero
  lengths the comparison of `is_overlapping` holds exactly when two ranges have
  a byte in common, so it is symmetric, as assumed.

Neither `StalledHasBlocker` nor `SnoopingDisjoint` is inductive.  When a
transaction is done, of two stalled transactions that overlap only one is
restarted, because the list is searched in order and what is restarted counts
as ongoing from then on.  This needs that of any two stalled transactions one
is older, and that only snooping transactions are stalled; these are the other
conjuncts of `OrdInv`.  That a stalled transaction is left with a blocker when
the one it overlaps is done follows from `Restarts`: it is not restarted only
because of another ongoing one, possibly one restarted just before.

`ChiLink_proofs` proves, for any two sides, any number of channels, credits and
packets, any number of activations and deactivations, and with resets
(`LinkAssumption`):

* `LinkInvariance`: `LinkSpec => []LinkInv`, where `LinkInv` is the conjunction of
  `LinkTypeOK`, `StoppedIsEmpty`, `CreditsConserved` and `MonitorAgrees`;
* `LinkTypes`, `LinkStopsEmpty`, `LinkConservesCredits`, `LinkMonitorAgrees`;
* `LinkDelivers`: `LinkSpec => []InOrder`.  The flits of a link, in the order in
  which they will be taken, are those received, the one on the wires and those that
  wait: every packet submitted and not yet taken is one of them, in ascending order,
  and any other is a returned credit.  A clock edge that moves a flit from one place
  to the next leaves that sequence alone; that it never puts a flit on a wire that
  the other side does not look at follows from `LinkInv`.  Besides, `OrderInv` needs
  that the mark of a created flit is never left on an empty list, where it would
  swallow the next packet.

The parts are inductive only together.  A stopped link ignores its wires, so a
credit on them would be lost: conservation rests on `StoppedIsEmpty`.  A receiver
lets the link stop when it has all its credits, and that nothing is on the wires
then rests on conservation.  `EdgeCounts` shows that a clock edge moves credits
between the four places, `EdgeStops` that it leaves a stopping link empty.

`AceBarrier_proofs` proves `BarTypes` and `SecondAnswersBoth` (`PairAnswersBoth`)
for any number of threads.  The invariant says what `ongoing`, the spawned
thread and the answer in `m_bar` have to do with whose turn it is.

### The coherent ACE system

`AceCoherence_proofs` and `AceData_proofs` prove about `AceSystem`, for any finite or infinite sets of caches, ACE-Lite masters, lines,
any width of a line and any accesses that `TrafficAssumption` allows (an access
of a cache stays in its line; exclusive ones go to shareable lines of WriteBack
caches):

1. `SpecBase`: `Spec => []BaseInv`.  Besides `TypeOK` it says what the
   bookkeeping of the interconnect agrees on: in which phase a transaction is
   against which fifo lists it; that a `SnoopTransaction` is listed in
   `m_snoop_done_fifo` once, when it is quiet; that an entry of the downstream
   fifo has its transaction; that no master has been asked and has answered at
   once; that the slot of a line is its address's.  Types alone are not
   inductive: what a handler reads is typed only because the phase is right.
   `SpecTypeOK` is a consequence.
2. `SpecLockHasOwner`: the lock of the `PosMonitor` has the owner that
   `LockHasOwner` names.
3. `SpecImplementsOrderer`: `Spec => ImplementsOrderer`.  `OrdererStep` takes the
   actions one by one: arrival, stall, end of a transaction with the restart of
   those behind it, or a stutter.
4. `SpecOngoingDisjoint`: through that refinement, `SnoopingApart` of
   `TxOrderer_proofs` holds of `AceSystem`.
5. `SpecOverlap`: `OverlapInv` says who is on the overlap list of a port, so that
   a snoop is held back exactly while a response for the line is under way.
6. `SpecCoherence`, from which `SpecUniqueIsAlone` and `SpecOneOwner` follow.

`UniqueIsAlone` is far from inductive: a cache gets a line by a response sent
long before, from snoops that were answered before that.  `CopiesInv` therefore
speaks of what a cache *will have* once the response on its way has arrived (no
snoop of that line can come in between, by `OverlapInv`), and `GrantInv` of what a
transaction that is still snooping is about to grant: a cache that has answered
has the line only if the transaction knows it as shared, and nobody else is dirty
if dirty data was passed on.  That nothing else gives the line to anyone
meanwhile is 4.

Both theorems assume `OneExclusiveUser`: exclusive accesses are used by one cache
at most.  Without it they are false, as the run `exclusive_failed` shows: a failed
exclusive CleanUnique makes a line unique.  `ExclusiveInv` proves that with one
user no exclusive transaction fails (`NoEngineFail`): a monitor of the cache is
armed only while the `PosMonitor` has the port marked.

7. `SpecCopiesAreCurrent`: a hit finds the last value stored by anyone.

The value of a line is in many places at once, so `WholeInv`, the inductive
invariant of 7, says for each place when it must be right:

* `RequestInv`: a transaction asks for what its access needs, and a write carries
  the words the access stores;
* `LinesInv`: nothing nonshareable is cached, a write-through cache has nothing to
  write back;
* `FrontInv`: the response that brings a line is the first on the overlap list of
  its port, so no snoop of the line gets there before it;
* `ExecFifo`: a line is written back for a snooping transaction once;
* `OkInv`, `AnswerInv`: what the flags of a payload and of an answer may be, so that a
  read goes to memory only if no snoop has brought the line;
* `ClearsInv`: a unique write has cleared the line from every cache that answered;
* `CarryInv`: what snoops have brought, in an answer, in a payload or in an entry of
  the downstream fifo, is the last value, and no cache may store meanwhile;
* `CopyData`, `FillData`, `BackData`: copies, fills on their way and copybacks are the
  last value (a copy of a cache whose write-through has been done downstream, once
  the acknowledgement has come);
* `MemoryInv`: memory has the last value, or a cache is to write it back, or it is under
  way with a transaction.

It is inductive on top of `CopiesInv`, `GrantInv` and `OverlapInv` only: that a store
in a cache makes no other copy stale is `SpecCoherence`, and that a fill from memory
meets no store on its way there is `SpecOngoingDisjoint`.

7 has two more hypotheses, which the code needs and does not see to.  `LinesMeet`:
where the transactions of two masters cover parts of the same line (those of ACE-Lite
masters, and stores of write-through caches) these parts meet.  The interconnect
orders transactions by the bytes they cover (`is_overlapping`, `iconnect-ace.h:849`),
though each of them snoops the whole line; two WriteUniques for different words of a
line that a third cache holds dirty run at the same time, and the line that the snoop
of one has brought may be written back over the word that the other has stored.
`NothingDiscarded`: there is no MakeInvalid, and CleanInvalid is used by write-through
caches only; `evict` (`cache-ace.h:885`) drops the cache's own dirty line.  Both are
listed hazards; the traffic of `mixed`, where TLC checks `CopiesAreCurrent`, meets both
hypotheses.

8. `SpecAceCheckerIsSilent`: the checkers on the ports (`checker-ace.h`) report
nothing, for every load, exclusive accesses by several caches included, that meets
`LiteShareable`: ACE-Lite masters, which mark what they issue shareable, touch
shareable lines.  `CheckerInv` has three parts:

* `Tracked`: the lines that the checker has listed from responses and snoops
  (`m_allocated`) are those that the cache holds.  The checker sees only what passes the
  port, the cache also what it does to its lines itself (a CleanInvalid or MakeInvalid
  evicts first); that these come to the same after each is the content;
* `Suits`: what a cache requests, and what it is to request after that, fits the
  domain of the access and the line in the slot.  A fill is not asked for while the
  slot holds a line, nor maintenance that ends the checker's tracking for a line that
  the cache still holds; `Evict` comes first.  Each step of the cache's algorithm has
  its lemma (`FetchFit`, `IssueFit` and so on);
* `Modest` and `ModestAnswer`: a response is marked shared, or passes dirty data, only
  if its transaction allows that, because the answers that `ProcessSnoops` collects do
  so only if the snoop allows it; `ResponseChecked` adds that only an exclusive transaction
  is answered EXOKAY.

It is inductive on top of `BaseInv` and `OverlapInv`, without `SpecCoherence`.

Each of the invariants of 1 to 6 and 8 was checked by TLC on the instances of `mixed`
and `write_back` before it was proved.  `MildLoads`, an assumption of `MCAceSystem`, has
TLC confirm in every run that the loads meet the hypotheses of 6 to 8 (all loads those
of 8, all but that of `exclusive_failed` those of 6 and 7).

### The CHI system

`ChiPhases_proofs` and `ChiCoherence_proofs` prove about `ChiSystem`, for any
finite set of requesters, of which any are caches, any lines and words, any
number of IDs and every load (`Modes`) that the assumptions allow:

* `ChiAssumption`: the home node is none of the requesters;
* `TrafficAssumption`: what initiators do, and that a cache does not read a line
  as nonshareable that it also loads or stores;
* `DVMAssumption`: the address of a DVM operation, which holds its parameters, is
  not that of a line a cache loads or stores.  The code does not see to that:
  `ProcessResp` (`iconnect-chi.h:2961`) gives the answers to a `SnpDVMOp`, which are
  `SnpResp_I`, to `SnoopFilter::Update` like any others, and the filter drops a line
  that the cache keeps.  Without the assumption TLC refutes `FilterCoversHolders`;
  the attempt to prove it brought this up.  It is a listed hazard.

1. `SpecPhases`: `ChiSpec => []IInv`, from which `SpecMessagesAreExpected` and
   `SpecOneSlaveRequest` follow.  Neither is inductive: that a message finds who
   waits for it depends on all that was sent before it and has not yet arrived.
   `IInv` describes that globally.  `PhaseInv` says that the request which
   `RequestOrderer` runs is in one of nine phases: there is none (`Idle`); caches are
   snooped (`Snoops`, `SnoopsDVM`); dirty data from a snoop is written back
   (`WritesBack`); the slave node is asked to read (`Fetches`); data or a response is
   on its way to the requester (`Gives`); data of a write is awaited (`TakesData`);
   an atomic runs at the slave node (`RunsAtomic`); data goes to the slave node
   (`Writes`).  A phase fixes what is on the channels of the requester that is
   served, of those that are snooped and of the slave node.  Everybody else is
   `Aside`: the request is on its way to the home node, sent back to be retried,
   listed in `m_reqList` (`ListInv`), or over but for its last message.  `Shape` and
   `TxnInv` are the types that this needs, `DVMInv` the halves of DVM snoops,
   `SlaveInv` the lists of the slave node against the data on its way there.  An atomic
   whose requester has counted a wrong number of bytes waits for nothing that can come.
2. `SpecCoherent`: `ChiSpec => [](IInv /\ CohInv)`, from which
   `SpecFilterCoversHolders` and `SpecChiUniqueIsAlone` follow.  A cache gets or
   upgrades a line only by the answer to the request that is being served;
   everything else that happens to a line leaves it weaker (`Leaves`, and
   `SnoopLeaves` for every snoop of every request).  So `CohInv` says of the request
   being served what the others have left of its line: an answer under way that
   reports an invalid line comes from a cache without it (`AnswersInv`); those that
   have answered hold no more than the request allows, and the home node knows of
   what is left (`KnownInv`); so does data on its way, from the home node or
   forwarded by a snooped cache (`DataInv`).  `FilterInv` has one exception, `Granted`: the
   line has come, and the `CompAck` after which the filter lists it has not.
   `CacheInv` relates the core thread's place to its line: what a copyback whose data
   is under way has left, and that a line once evicted stays so until the next fill.
3. `SpecChiTypeOK`: `FlitsKeepData => (ChiSpec => []ChiTypeOK)`.  Besides types it says
   that a line is never valid, clean and partly filled, which `GetStatus` takes for
   granted.  `Sound` is stronger: a shared line is full, any other that has bytes but
   not all of them is dirty.  It is kept because whoever cleans or shares a line finds
   it full: a snoop by the status it answers for (`SnoopSound`, over all handlers),
   CleanUnique and WriteCleanFull because they are sent for such lines only and
   `line.be` never shrinks under them (`NodeOk`).  `TypeInv` follows data through the
   channels (`UpInv`, `DownInv`, `SlaveTypes`) and bounds what the home node, the
   slave node and the memory make of it.  Two more assumptions: `WordsAssumption`, that
   an access is of words of its line and stores values that a word can hold; and the
   hypothesis `FlitsKeepData`, that data arrives as it was sent, which `CreateFlit` and
   `ParseFlit` give only where the words and values of a line fit in the flits.
   `FlitsAreWide`, an assumption of `MCChi`, has TLC confirm it for the layout of
   the flits and the widths of every run.

Before they were proved, `IInv` and `CohInv` were checked by TLC on the instances
of `chi_safety`.

### The AXI bridges

`AxiOrder_proofs` proves about `AxiSystem`, for any scenarios (any number of
transactions of any shape, IDs, pages and kinds, AXI3, AXI4 and ACE, any number of
resets), any width of the bus that divides a page (`SlaveAssumption`) and any limits
of the slave:

1. `SpecAxiInv`: `AxiSpec => []AxiInv`, the inductive invariant;
2. `SpecTlmOrder`: transactions of a channel that share an ID or a page run at the
   target in the order of issue and never together, barriers in their place;
3. `SpecAxiTypeOK`: the counters of the slave count what is under way.

`TlmOrder` speaks of what has run, and says nothing of what is still to run; so it is
not inductive.  A transaction goes through several queues, of the master, for write
data, and the slave's list.  `Path(l)` is all of them in a row, and a handshake only
moves the border between two of them.  `RunInv` says of the paths:

* `IssueInv`, `OrderInv`: they hold transactions that have been issued, once and
  in the order of issue;
* `WaitingInv`: what has not started has not been overtaken by anything that it
  conflicts with, which is what `WaitForTransactions` and the threads by ID are for;
* `TogetherInv`: what the target runs at the same time does not conflict, and of
  the transactions of an ID only the first has a thread (`GetFirstWithID`, `InList`);
* `RanInv`: what has run is in order, `TlmOrder` without what is running.

A step that issues and starts nothing thins a path out, or leaves it alone, and keeps all
of this (`RunKeeps`), a reset included.  What is left is one lemma for issue and
one for start (`RunIssues`, `RunStarts`).

The path of the writes is one only because data goes to the transaction it is meant
for: the data of W is not marked in AXI4.  `WrDataInv` says that the thread of W
has the transactions that wait in the slave, followed by the one whose AW is next, and that
both sides have counted the same beats of the first.  That the master's last
byte falls into the last beat that AW announced is `BeatStep`, arithmetic about
`NumBeats` and `BeatBytes`; it needs the hypothesis of the three theorems,
`WholeBursts`: the burst width of a write divides the bus and is not above the
streaming width of a fixed burst.  Without it the bridges do disagree (see what the
traffic leaves out).  `WholeScenarios`, an assumption of `MCAxi`, has TLC confirm
the hypothesis for the scenarios of `axi`, and TLC checked `AxiInv` there before it was
proved.

### What is only model-checked

* Liveness (`AccessCompletes`, `ChiAccessCompletes`, `LinkSettles` and the like).
* `Linearizable` of `AceSystem`: a single line is current by 7, but that an ACE-Lite
  read of several words takes effect at one moment is not in `WholeInv`.
* `RestIsCoherent`, `LoadsAreCurrent`, `CheckerIsSilent` of `ChiSystem`: they follow the
  data of a line through caches, messages and memory, and the checker's account of it.
* `PayloadsArrive` and `AxiCheckerIsSilent` of `AxiSystem`: the bytes of a payload are
  collected beat by beat through filters on sequences (`FillData`, `SelectSeq`), which
  needs induction over data.
* `CcixPort`, whose scenarios are single transactions of every shape: there is little
  that more nodes or values would add.
* The translation of messages (`TranslationKeeps`) is about fields computed by folds,
  which needs induction over data.  It says nothing of byte enables.

## Not modelled

* ACE: DVM messages, error responses, the secure attribute, the snoop channels
  signal by signal and their reset.
* CHI: exclusive and ordered accesses, PrefetchTgt, several slave nodes, accesses
  that cross a line, more than one transaction of a cache at a time (the code has
  one, under `m_mutex`), the SYSCO handshake, the bits of data in flits.
* AXI: locked and exclusive access, QoS, regions, user signals; checks of single
  signals over clock cycles.
* CCIX: several agents, Misc messages other than credits, data values, the
  activation of the CXS link (the protocol of `ChiLink`).
* The parts listed as `not_modelled` in PROJECT.json, with the reason.

## Plan

1. Prove more: `RestIsCoherent` and `LoadsAreCurrent` of `ChiSystem` on top of `CohInv`,
   for traffic in which no snoop takes a line from under a CleanUnique;
   `Linearizable` of `AceSystem` on top of `WholeInv`, for single lines; `NothingLeaks` of
   `CcixPort`.
2. DVM of ACE (trackers and sync counters of the bridges), error responses, and the
   snoop channels with their reset.
3. The exclusive monitor (`tlm-exmon`) and the byte loops of `cache_ace`.
4. libremote-port: synchronisation of time and the response protocol.
