--------------------------- MODULE DeliveryStore ---------------------------
(***************************************************************************)
(* The forward_deliveries table (src/src/storage/deliveries.rs,            *)
(* storage/attempts.rs): one row per (message, channel profile), claimed   *)
(* in batches under a lease token and completed by a compare-and-swap on   *)
(* that token.  Every action is one transaction.                           *)
(*                                                                         *)
(* Abstractions.  The wall clock is a flag per deadline: `live' (lease_at  *)
(* is ahead), `due' (next_attempt_at, or the creation, is past) and `aged' *)
(* (created more than RETRY_MAX_AGE ago, the same for all deliveries of a  *)
(* message).  Among due rows a claim takes any, not the longest due.  The  *)
(* rows the code writes carry well-formed timestamps, so its branches for  *)
(* malformed ones are left out.  Of an attempt sample only the fact that   *)
(* it was written is kept.                                                 *)
(*                                                                         *)
(* A definition introduced as a mutant is a bug the code could have had;   *)
(* nothing uses it, the properties are tested against it.                  *)
(***************************************************************************)
EXTENDS Naturals, FiniteSets

CONSTANTS
    Messages,       \* inbound messages
    Profiles,       \* channel profiles, such as bark.phone
    Tokens,         \* lease tokens: UUIDs, told apart and nothing else
    NoToken,        \* lease_token IS NULL
    BatchSize       \* LIMIT of a claim: concurrency * CLAIMED_WAVES_PER_BATCH

ASSUME DeliveryStoreAssumption ==
    /\ NoToken \notin Tokens
    /\ BatchSize \in Nat \ {0}

Rows == Messages \X Profiles        \* UNIQUE(message_id, profile_key)

States   == {"absent", "pending", "in_flight", "retry_wait", "succeeded",
             "permanent_failed"}
Waiting  == {"pending", "retry_wait"}
Resolved == {"succeeded", "permanent_failed"}

VARIABLES
    stored,     \* stored[m]: message m was never received, is there, was deleted
    delivery,   \* delivery[d]: the forward_deliveries row d
    samples     \* samples[d]: attempt samples ever written for d

deliveryVars == <<stored, delivery, samples>>

RowType == [state: States, attempts: Nat, token: Tokens \cup {NoToken},
            live: BOOLEAN, due: BOOLEAN]

DeliveryStoreTypeOK ==
    /\ stored \in [Messages -> {"no", "yes", "deleted"}]
    /\ delivery \in [Rows -> RowType]
    /\ samples \in [Rows -> Nat]

NoRow == [state |-> "absent", attempts |-> 0, token |-> NoToken,
          live |-> FALSE, due |-> TRUE]

DeliveryStoreInit ==
    /\ stored = [m \in Messages |-> "no"]
    /\ delivery = [d \in Rows |-> NoRow]
    /\ samples = [d \in Rows |-> 0]

(***************************************************************************)
(* insert_inbound_message_with_deliveries                                  *)
(***************************************************************************)
InsertMessage(m, profiles) ==
    /\ stored[m] = "no"
    /\ stored' = [stored EXCEPT ![m] = "yes"]
    /\ delivery' = [d \in Rows |->
                      IF d[1] = m /\ d[2] \in profiles
                      THEN [NoRow EXCEPT !.state = "pending"] ELSE delivery[d]]
    /\ UNCHANGED samples

(***************************************************************************)
(* claim_due_deliveries: expired leases go back to the queue, then up to   *)
(* BatchSize due rows are leased under one fresh token.                    *)
(***************************************************************************)
\* Mutant: every row in flight is taken for abandoned.
ExpiredUnchecked == {d \in Rows : delivery[d].state = "in_flight"}

\* Mutant: the state is not compared.
ExpiredAnyState == {d \in Rows : delivery[d].state # "absent" /\ ~delivery[d].live}

Expired == {d \in Rows : delivery[d].state = "in_flight" /\ ~delivery[d].live}

Requeued(r) == [r EXCEPT !.state = "retry_wait", !.token = NoToken,
                         !.live = FALSE, !.due = TRUE]

Claimable == Expired \cup {d \in Rows : delivery[d].state \in Waiting /\ delivery[d].due}

Leased(r, token) == [r EXCEPT !.state = "in_flight", !.token = token, !.live = TRUE]

ClaimBatch(batch, token) ==
    /\ batch \subseteq Claimable /\ IsFiniteSet(batch)
    /\ Cardinality(batch) <= BatchSize
    /\ batch = Claimable \/ Cardinality(batch) = BatchSize
    /\ delivery' = [d \in Rows |->
                      IF d \in batch THEN Leased(delivery[d], token)
                      ELSE IF d \in Expired THEN Requeued(delivery[d])
                      ELSE delivery[d]]
    /\ UNCHANGED <<stored, samples>>

\* recover_expired_leases, at the start of the service
RecoverExpired ==
    /\ delivery' = [d \in Rows |-> IF d \in Expired THEN Requeued(delivery[d])
                                                    ELSE delivery[d]]
    /\ UNCHANGED <<stored, samples>>

(***************************************************************************)
(* complete_delivery, complete_delivery_with_attempt.  The sample is       *)
(* written whether or not the lease still is the caller's.                 *)
(***************************************************************************)
\* Mutant: the token is not compared.
HoldsAnyLease(d, token) == delivery[d].state = "in_flight"

HoldsLease(d, token) == delivery[d].state = "in_flight" /\ delivery[d].token = token

Outcome(r, state, attempts) ==
    [r EXCEPT !.state = state, !.attempts = attempts, !.token = NoToken,
              !.live = FALSE, !.due = (state # "retry_wait")]

CompleteRow(d, token, state, attempts, sampled) ==
    /\ delivery' = IF HoldsLease(d, token)
                   THEN [delivery EXCEPT ![d] = Outcome(@, state, attempts)]
                   ELSE delivery
    /\ samples' = IF sampled THEN [samples EXCEPT ![d] = @ + 1] ELSE samples
    /\ UNCHANGED stored

(***************************************************************************)
(* next_delivery_due_at: leased rows do not count.                         *)
(***************************************************************************)
Scheduled == {d \in Rows : delivery[d].state \in Waiting}

(***************************************************************************)
(* delete_messages and delete_conversation take the deliveries along (ON   *)
(* DELETE CASCADE); run_retention only takes messages whose deliveries are *)
(* all resolved.                                                           *)
(***************************************************************************)
\* Mutant: the foreign key does not cascade.
EraseMessageOnly(m) ==
    /\ stored[m] = "yes"
    /\ stored' = [stored EXCEPT ![m] = "deleted"]
    /\ UNCHANGED <<delivery, samples>>

EraseMessage(m) ==
    /\ stored[m] = "yes"
    /\ stored' = [stored EXCEPT ![m] = "deleted"]
    /\ delivery' = [d \in Rows |-> IF d[1] = m THEN NoRow ELSE delivery[d]]
    /\ UNCHANGED samples

Active(m) == \E d \in Rows : d[1] = m /\ delivery[d].state \in Waiting \cup {"in_flight"}

(***************************************************************************)
(* Deadlines                                                               *)
(***************************************************************************)
LeaseRunsOut(d) ==
    /\ delivery[d].state = "in_flight"
    /\ delivery[d].live
    /\ delivery' = [delivery EXCEPT ![d].live = FALSE]
    /\ UNCHANGED <<stored, samples>>

RetryComesDue(d) ==
    /\ ~delivery[d].due
    /\ delivery' = [delivery EXCEPT ![d].due = TRUE]
    /\ UNCHANGED <<stored, samples>>
=============================================================================
