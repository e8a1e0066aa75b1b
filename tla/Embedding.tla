----------------------------- MODULE Embedding -----------------------------
(***************************************************************************)
(* The embedding service (src/src/embeddings.ts) and the worker pool it    *)
(* uses (mapLimit in src/src/utils.ts): a call looks its texts up in a     *)
(* cache, asks the provider for the others in batches, several at a time   *)
(* and with retries, and caches what it learned when every batch is in.    *)
(* Calls of the process share the cache and run in any interleaving; the   *)
(* code between two awaits is one step.  A vector is modelled by the key   *)
(* it was computed for.                                                    *)
(***************************************************************************)
EXTENDS Loops, FiniteSets, SequencesExt

CONSTANTS
  Texts, Callers, Null,
  Inputs,          \* records [texts, purpose]: what callers embed
  Configurations   \* records, see the variable config

Purposes == {"document", "query"}
Providers == {"none", "indexed", "ordered"}  \* indexed: openai, openrouter; ordered: ollama, google

ASSUME NullAssumption == Null \notin Texts \X Purposes
ASSUME InputAssumption ==
  \A input \in Inputs : input.texts \in Seq(Texts) /\ input.purpose \in Purposes
ASSUME ConfigurationAssumption ==
  \A c \in Configurations :
    /\ c.provider \in Providers
    /\ c.batchSize \in Nat \ {0} /\ c.concurrency \in Nat \ {0}
    /\ c.retryMax \in Nat /\ c.cacheSize \in Nat

VARIABLES
  config,  \* provider, batchSize, concurrency, retryMax, cacheSize
  cache,   \* the Map in its order: sequence of [key, value, fresh]
  calls    \* per caller, its call, which may be over

vars == <<config, cache, calls>>

Keys == Texts \X Purposes
Over == [batch |-> 0, attempt |-> 0, waiting |-> FALSE]   \* a worker that found no batch, or failed
NoCall == [stage |-> "idle", workers |-> <<>>]

Init ==
  /\ config \in Configurations
  /\ cache = <<>>
  /\ calls = [c \in Callers |-> NoCall]

----------------------------------------------------------------------------
(* The cache *)

CacheKey(text, purpose) == <<text, purpose>>

IsCached(entries, key) == \E i \in DOMAIN entries : entries[i].key = key
PositionOf(entries, key) == CHOOSE i \in DOMAIN entries : entries[i].key = key

Without(entries, key) ==
  IF IsCached(entries, key) THEN RemoveAt(entries, PositionOf(entries, key)) ELSE entries

\* Mutant: the newest entry goes.
KeptOldest(entries) ==
  IF Len(entries) <= config.cacheSize THEN entries ELSE SubSeq(entries, 1, config.cacheSize)

\* Eviction takes the first entries of the Map.
Kept(entries) ==
  IF Len(entries) <= config.cacheSize THEN entries
  ELSE SubSeq(entries, Len(entries) - config.cacheSize + 1, Len(entries))

\* cacheSet: a key that another call has stored meanwhile keeps its place.
CacheSet(entries, key, value) ==
  LET entry == [key |-> key, value |-> value, fresh |-> TRUE]
  IN  IF config.cacheSize = 0 THEN entries
      ELSE Kept(IF IsCached(entries, key)
                THEN [i \in DOMAIN entries |-> IF entries[i].key = key THEN entry ELSE entries[i]]
                ELSE Append(entries, entry))

\* An entry's time is over.  A hit does not renew it.
Expire(i) ==
  /\ cache[i].fresh
  /\ cache' = [cache EXCEPT ![i].fresh = FALSE]
  /\ UNCHANGED <<config, calls>>

----------------------------------------------------------------------------
(* A call *)

\* One text of a call: a hit moves to the end of the Map; an expired entry is
\* deleted; a text that misses is asked for once, however often it occurs.
LookUp(seen, text, purpose) ==
  LET key == CacheKey(text, purpose)
      entry == seen.cache[PositionOf(seen.cache, key)]
      others == Without(seen.cache, key)
  IN  IF IsCached(seen.cache, key) /\ entry.fresh
      THEN [seen EXCEPT !.cache = Append(others, entry), !.found = Append(@, entry.value)]
      ELSE [cache |-> others, found |-> Append(seen.found, Null),
            missing |-> IF \E n \in DOMAIN seen.missing : seen.missing[n] = text
                        THEN seen.missing ELSE Append(seen.missing, text)]

NothingSeen == [cache |-> cache, found |-> <<>>, missing |-> <<>>]

LookUpAll(input) ==
  Through(LAMBDA seen, text : LookUp(seen, text, input.purpose), NothingSeen, input.texts)

\* The texts that miss are cut into batches, numbered from 1.
BatchCount(missing) == (Len(missing) + config.batchSize - 1) \div config.batchSize
Offset(b) == (b - 1) * config.batchSize
Positions(missing, b) ==
  {n \in DOMAIN missing : Offset(b) < n /\ n <= Offset(b) + config.batchSize}
Batch(missing, b) == [i \in {n - Offset(b) : n \in Positions(missing, b)} |-> missing[Offset(b) + i]]

Working(b) == [batch |-> b, attempt |-> 0, waiting |-> FALSE]

\* Every output, when all batches are answered.
OutputsOf(call, answers) ==
  LET PlaceOf(text) == CHOOSE n \in DOMAIN call.missing : call.missing[n] = text
  IN  [i \in DOMAIN call.found |->
         IF call.found[i] # Null THEN call.found[i] ELSE answers[PlaceOf(call.input.texts[i])]]

\* embedMany up to its first await: mapLimit starts its workers, which send the
\* first requests.
EmbedMany(c, input) ==
  LET seen == LookUpAll(input)
      count == BatchCount(seen.missing)
  IN  /\ calls[c].stage # "running" /\ \A w \in DOMAIN calls[c].workers : calls[c].workers[w] = Over
      /\ config.provider # "none" /\ input.texts # <<>>
      /\ cache' = seen.cache
      /\ calls' = [calls EXCEPT ![c] =
           [stage |-> IF count = 0 THEN "done" ELSE "running", input |-> input,
            found |-> seen.found, missing |-> seen.missing,
            workers |-> [w \in 1 .. config.concurrency |-> IF w <= count THEN Working(w) ELSE Over],
            next |-> (IF config.concurrency < count THEN config.concurrency ELSE count) + 1,
            answers |-> [n \in DOMAIN seen.missing |-> Null],
            outputs |-> IF count = 0 THEN seen.found ELSE <<>>]]
      /\ UNCHANGED config

\* Without a provider every output is null.
EmbedNothing(c, input) ==
  /\ config.provider = "none" /\ calls[c].stage = "idle"
  /\ calls' = [calls EXCEPT ![c] =
       [stage |-> "done", input |-> input, found |-> <<>>, missing |-> <<>>, workers |-> <<>>,
        next |-> 1, answers |-> <<>>, outputs |-> [i \in DOMAIN input.texts |-> Null]]]
  /\ UNCHANGED <<config, cache>>

----------------------------------------------------------------------------
(* A worker's request *)

Requesting(c, w) ==
  /\ w \in DOMAIN calls[c].workers
  /\ calls[c].workers[w] # Over /\ ~calls[c].workers[w].waiting

\* What the provider may send for a batch: vectors for its texts in any order,
\* and possibly not for all of them.  [index, embedding], where the index counts.
Payloads(batch, purpose) ==
  LET Of(order) == [i \in DOMAIN order |->
                      [index |-> order[i], embedding |-> <<batch[order[i]], purpose>>]]
      InOrder(s) == \A i, j \in DOMAIN s : i < j => s[i] < s[j]
      Orders == {s \in UNION {[1 .. n -> DOMAIN batch] : n \in 0 .. Len(batch)} : IsInjective(s)}
  IN  {Of(order) : order \in {s \in Orders : config.provider = "indexed" \/ InOrder(s)}}

\* Mutant: vectors are taken as they come.
ResultsUnsorted(payload) == [i \in DOMAIN payload |-> payload[i].embedding]

\* openAICompatibleResults sorts by index; the other providers answer in order.
Results(payload) ==
  LET places == DOMAIN payload
      sorted == CHOOSE p \in [places -> places] :
                  \A i, j \in places : i < j => payload[p[i]].index < payload[p[j]].index
  IN  [i \in places |-> payload[sorted[i]].embedding]

\* What is known after the answer to a batch.
Filed(call, b, payload) ==
  [n \in DOMAIN call.missing |-> IF n \in Positions(call.missing, b)
                                 THEN Results(payload)[n - Offset(b)] ELSE call.answers[n]]

\* Mutant: a batch is cached as soon as it is answered.
StoredAtOnce(call, b, returns) ==
  [i \in DOMAIN Batch(call.missing, b) |-> Offset(b) + i]

\* The places of the texts whose vectors are cached: all, when the call returns.
Stored(call, b, returns) == IF returns THEN [n \in DOMAIN call.missing |-> n] ELSE <<>>

StoreAll(call, answers, places) ==
  Through(LAMBDA entries, n :
            CacheSet(entries, CacheKey(call.missing[n], call.input.purpose), answers[n]),
          cache, places)

\* The worker takes its next batch.  When the last worker is over, the call
\* caches what it learned and returns.
Answer(c, w, payload) ==
  LET call == calls[c]
      batch == call.workers[w].batch
      answers == Filed(call, batch, payload)
      more == call.next <= BatchCount(call.missing)
      after == [call.workers EXCEPT ![w] = IF more THEN Working(call.next) ELSE Over]
      returns == call.stage = "running" /\ \A v \in DOMAIN after : after[v] = Over
  IN  /\ Requesting(c, w)
      /\ Len(payload) = Len(Batch(call.missing, batch))
      /\ cache' = StoreAll(call, answers, Stored(call, batch, returns))
      /\ calls' = [calls EXCEPT ![c] = [call EXCEPT
           !.workers = after, !.answers = answers,
           !.next = IF more THEN call.next + 1 ELSE call.next,
           !.stage = IF returns THEN "done" ELSE call.stage,
           !.outputs = IF returns THEN OutputsOf(call, answers) ELSE call.outputs]]
      /\ UNCHANGED config

\* Mutant: attempts are not counted.
RetriedForever(worker) == [worker EXCEPT !.waiting = TRUE]

Retried(worker) == [worker EXCEPT !.attempt = @ + 1, !.waiting = TRUE]

\* A network error, a timeout, a status that may be tried again, or an answer
\* that is not JSON.
FailAndRetry(c, w) ==
  /\ Requesting(c, w)
  /\ calls[c].workers[w].attempt < config.retryMax
  /\ calls' = [calls EXCEPT ![c].workers[w] = Retried(@)]
  /\ UNCHANGED <<config, cache>>

\* After the last attempt, with an error that is final, or with too few
\* vectors the worker fails, and the call with it.  Its other workers go on.
Fail(c, w) ==
  /\ Requesting(c, w)
  /\ calls' = [calls EXCEPT ![c] = [@ EXCEPT !.stage = "failed", !.workers[w] = Over]]
  /\ UNCHANGED <<config, cache>>

\* The delay before the next attempt is over.
Retry(c, w) ==
  /\ w \in DOMAIN calls[c].workers /\ calls[c].workers[w].waiting
  /\ calls' = [calls EXCEPT ![c].workers[w].waiting = FALSE]
  /\ UNCHANGED <<config, cache>>

\* What timers bring about when nothing else does: the end of an attempt and of
\* the delay after it.
TimerStep(c, w) == FailAndRetry(c, w) \/ Fail(c, w) \/ Retry(c, w)

Next ==
  \/ \E i \in DOMAIN cache : Expire(i)
  \/ \E c \in Callers, input \in Inputs : EmbedMany(c, input) \/ EmbedNothing(c, input)
  \/ \E c \in Callers : \E w \in DOMAIN calls[c].workers :
       \/ TimerStep(c, w)
       \/ /\ Requesting(c, w)
          /\ \E payload \in Payloads(Batch(calls[c].missing, calls[c].workers[w].batch),
                                     calls[c].input.purpose) : Answer(c, w, payload)

Spec == Init /\ [][Next]_vars

MaxWorkers == {c.concurrency : c \in Configurations}
FairSpec ==
  /\ Spec
  /\ \A c \in Callers : \A w \in UNION {1 .. n : n \in MaxWorkers} : WF_vars(TimerStep(c, w))

----------------------------------------------------------------------------
(* Properties *)

Entries == [key : Keys, value : Keys, fresh : BOOLEAN]
Vectors == Seq(Keys \cup {Null})
Workers == {Over} \cup [batch : Nat \ {0}, attempt : 0 .. config.retryMax, waiting : BOOLEAN]
Calls == [stage : {"running", "done", "failed"}, input : Inputs, found : Vectors,
          missing : Seq(Texts), workers : Seq(Workers), next : Nat \ {0},
          answers : Vectors, outputs : Vectors]

\* Every variable has its type; the cache has a key once.
TypeOK ==
  /\ config \in Configurations
  /\ cache \in Seq(Entries) /\ Len(cache) <= config.cacheSize
  /\ \A i, j \in DOMAIN cache : cache[i].key = cache[j].key => i = j
  /\ calls \in [Callers -> {NoCall} \cup Calls]

\* A call that returns has, for every text it was given, that text's own
\* vector for its purpose, whatever was cached by whom, repeated in the call
\* or sent back in another order; without a provider it has none (embedMany).
OwnVectors ==
  \A c \in Callers : calls[c].stage = "done" =>
    LET call == calls[c]
    IN  /\ Len(call.outputs) = Len(call.input.texts)
        /\ \A i \in DOMAIN call.outputs : call.outputs[i] =
             IF config.provider = "none" THEN Null ELSE <<call.input.texts[i], call.input.purpose>>

\* A call that fails leaves no trace in the cache, not even through the workers
\* that outlive it: vectors are stored when a call returns, those it had asked for.
FailuresCacheNothing ==
  [][\A k \in Keys : IsCached(cache', k) /\ ~IsCached(cache, k) =>
       \E c \in Callers :
         /\ calls[c].stage = "running" /\ calls'[c].stage = "done"
         /\ \E n \in DOMAIN calls[c].missing :
              k = CacheKey(calls[c].missing[n], calls[c].input.purpose)]_vars

\* When the cache has room for all a call asked for, all of it is cached when the
\* call returns: its own entries do not push each other out. One exception: a
\* key that another call had cached meanwhile keeps its old place (cacheSet's
\* Map.set), and a full cache may evict it before what this call adds.
LearnsWhatFits ==
  [][\A c \in Callers : calls[c].stage = "running" /\ calls'[c].stage = "done" =>
       LET asked == calls[c].missing
       IN  Len(asked) <= config.cacheSize =>
             \A n \in DOMAIN asked :
               LET k == CacheKey(asked[n], calls[c].input.purpose)
               IN  \/ IsCached(cache', k)
                   \/ IsCached(cache, k) /\ Len(cache') = config.cacheSize]_vars

\* Every call ends, and no request of it goes on for ever: timeouts bound each
\* attempt, embeddingRetryMax their number.
EveryCallEnds ==
  \A c \in Callers : calls[c].stage = "running"
    ~> calls[c].stage # "running" /\ \A w \in DOMAIN calls[c].workers : calls[c].workers[w] = Over
=============================================================================
