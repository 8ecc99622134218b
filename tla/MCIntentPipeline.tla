--------------------------- MODULE MCIntentPipeline ---------------------------
(* Small instances of IntentPipeline.                                      *)
EXTENDS IntentPipeline, TLC

CONSTANTS
    t1, t2,           \* sessions
    e1, e2,           \* entities
    key1, key2, key3  \* keys clients send in Idempotency-Key

Item(key, entity) == [key |-> key, entity |-> entity, target |-> NoKey]

Mutation(key, entity, role) ==
    [type |-> "MUTATION", key |-> key, entity |-> entity, target |-> NoKey, role |-> role,
     items |-> <<>>, of |-> NoId]

Batch(key, items) ==
    [type |-> "BATCH_MUTATION", key |-> key, entity |-> DefaultEntity, target |-> NoKey,
     role |-> "approver", items |-> items, of |-> NoId]

(* One key for two entities, and for the item of a batch.                  *)
SharedKey ==
    {Mutation(key1, e1, "operator"), Mutation(key1, e1, "approver"), Mutation(key1, e2, "approver"),
     Batch(key2, <<Item(key1, e1), Item(NoKey, e1)>>)}

(* A key twice in one batch, in another batch, and for a mutation sent     *)
(* alone.                                                                  *)
SharedItem ==
    {Batch(key2, <<Item(key1, e1), Item(key1, e1)>>), Batch(key3, <<Item(key1, e1)>>),
     Mutation(key1, e1, "approver")}

(* Sessions are interchangeable.                                           *)
SessionSymmetry == Permutations({t1, t2})

================================================================================
