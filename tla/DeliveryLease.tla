--------------------------- MODULE DeliveryLease ---------------------------
(***************************************************************************)
(* The time a claimed delivery spends in the worker                        *)
(* (src/src/delivery/worker.rs): a batch of four waves is claimed under    *)
(* one lease when no row is queued any more, each free slot takes the next *)
(* row, and an attempt may last the request timeout for every request its  *)
(* channel makes. Delivery lets a lease lapse at any moment; here time     *)
(* passes, and the question is what it takes for one to lapse.             *)
(*                                                                         *)
(* Abstractions.  Time passes in attempts only; the transactions of the    *)
(* store take none.                                                        *)
(***************************************************************************)
EXTENDS Naturals, FiniteSets

CONSTANTS
    Slots,            \* delivery.concurrency of them
    LeaseFloor,       \* LEASE_SECS
    Waves,            \* CLAIMED_WAVES_PER_BATCH
    ChannelTimeout,   \* http.request_timeout_secs
    RequestsPerAttempt \* most requests one attempt makes

ASSUME LeaseAssumption ==
    /\ IsFiniteSet(Slots)
    /\ {LeaseFloor, Waves, ChannelTimeout, RequestsPerAttempt}
           \subseteq Nat \ {0}

VARIABLES
    queue,            \* rows claimed and not begun, what is left of their
                      \* lease, and whether an attempt outlasted the timeout
                      \* of one request while they waited
    slot              \* slot[s]: idle, or the age of its attempt, what is left
                      \* of its lease, and whether its row waited for such one

leaseVars == <<queue, slot>>

IdleSlot == [busy |-> FALSE, lease |-> 0, age |-> 0, late |-> FALSE]
Concurrency == Cardinality(Slots)

\* claim_delivery_batch
BatchSize == Concurrency * Waves

\* A mutant: the lease counts one attempt.
LeaseSpanOfOne == LeaseFloor + ChannelTimeout

LeaseSpan == LeaseFloor + ChannelTimeout * Waves
AttemptSpan == RequestsPerAttempt * ChannelTimeout

\* Every state has these types.
DeliveryLeaseTypeOK ==
    /\ queue \in [rows : 0..BatchSize, lease : 0..LeaseSpan, slow : BOOLEAN]
    /\ slot \in [Slots -> [busy : BOOLEAN, lease : 0..LeaseSpan,
                           age : 0..AttemptSpan, late : BOOLEAN]]

DeliveryLeaseInit ==
    /\ queue = [rows |-> 0, lease |-> 0, slow |-> FALSE]
    /\ slot = [s \in Slots |-> IdleSlot]

IdleSlots == {s \in Slots : ~slot[s].busy}

\* An attempt lasts longer than one request may.
Outlasting(slots) ==
    \E s \in Slots : slots[s].busy /\ slots[s].age > ChannelTimeout

\* Any number of rows may be due; a batch is claimed when the last one is
\* taken up and an attempt has just been joined.
ClaimBatch ==
    /\ queue.rows = 0
    /\ IdleSlots # {}
    /\ \E n \in 1..BatchSize :
          queue' = [rows |-> n, lease |-> LeaseSpan, slow |-> Outlasting(slot)]
    /\ UNCHANGED slot

FillSlot(s) ==
    /\ queue.rows > 0
    /\ ~slot[s].busy
    /\ queue' = [queue EXCEPT !.rows = @ - 1]
    /\ slot' = [slot EXCEPT ![s] = [busy |-> TRUE, lease |-> queue.lease,
                                    age |-> 0, late |-> queue.slow]]

\* The channel answers, or the timeout of the HTTP client ends the attempt.
JoinAttempt(s) ==
    /\ slot[s].busy
    /\ slot' = [slot EXCEPT ![s] = IdleSlot]
    /\ UNCHANGED queue

Less(lease) == IF lease > 0 THEN lease - 1 ELSE 0

\* Filling is immediate, and no attempt goes on past its last timeout.
LeaseTick ==
    /\ queue.rows > 0 => IdleSlots = {}
    /\ \A s \in Slots : slot[s].busy => slot[s].age < AttemptSpan
    /\ slot' = [s \in Slots |->
                  IF slot[s].busy
                  THEN [slot[s] EXCEPT !.age = @ + 1, !.lease = Less(@)]
                  ELSE slot[s]]
    /\ queue' = [queue EXCEPT !.lease = Less(@),
                              !.slow = @ \/ Outlasting(slot')]

DeliveryLeaseNext ==
    \/ ClaimBatch \/ LeaseTick
    \/ \E s \in Slots : FillSlot(s) \/ JoinAttempt(s)
DeliveryLeaseSpec == DeliveryLeaseInit /\ [][DeliveryLeaseNext]_leaseVars

---------------------------------------------------------------------------
\* With a timeout shorter than the fixed part of the lease, a claimed row
\* outlives its lease only if its own attempt, or one that kept a slot while
\* it waited, lasted longer than one request may (of the channels only WeCom
\* makes two): else no number of due rows, and no moment at which the batch is
\* claimed, makes a row wait so long that the next claim would release it and
\* hand the message to the channel twice (claim_delivery_batch).
LeaseCoversTheBatch ==
    ChannelTimeout < LeaseFloor =>
      /\ queue.rows > 0 /\ ~queue.slow => queue.lease > 0
      /\ \A s \in Slots :
           slot[s].busy /\ ~slot[s].late /\ slot[s].age <= ChannelTimeout =>
             slot[s].lease > 0
===========================================================================
