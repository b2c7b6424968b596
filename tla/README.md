# Verification of the Freshness Value Manager (vwos-sok)

TLA+ models, model-checking runs and proofs for the Freshness Value Manager
(FVM) in `src/vwos-sok-develop`. The FVM gives the SecOC module of an ECU the
freshness values that go into the authenticators (MACs) of secured PDUs. Paths
below are relative to `src/vwos-sok-develop/`; times are in milliseconds.

Contents: [inventory](#1-inventory), [modules](#2-modules),
[runs](#3-runs-and-what-they-show), [proofs](#4-proofs),
[findings](#5-where-code-and-documentation-differ),
[limits](#6-abstractions-and-what-is-not-modelled), [what could come next](#7-what-could-come-next).

## 1. Inventory

| Part | Source | State | Operations |
|---|---|---|---|
| FVM common part | `src/sok/fvm/AFreshnessValueManagerImpl.cpp` | `mFV`, `mIsFvValid`, `mClockCount`, `mTimeSinceInit`, the maps of active challenges, `mFvRxCandidates` | `incTimers`, `GetTxFreshness`, `GetRxFreshness`, `VerificationStatusCallout`, `SPduTxConfirmation`, `TriggerCrRequest`, `OfferCrRequest`, `incomingChallengeSignalCb`, `Init`, `Deinit` |
| FVM participant | `FreshnessValueManagerImplParticipant.cpp`, `FreshnessValueStateManager.cpp` | `mCurrentFvState`, the open request (`mActiveFvChallenge`, `mTimeSinceAuthFvReq`), received data (`mCrAuthFvAndMac`, `mUnAuthFv`) | `MainFunction` with one action per state, three signal callbacks |
| FVM server | `FreshnessValueManagerImplServer.cpp` | `mFV`, timers, two "need to" flags, pending challenges per client | `MainFunction` (broadcast, answers, timers), challenge callback |
| Runtime attributes | `FvmRuntimeAttributesManager.cpp` | per ID: active flag, five times, session counter | `SetActive`, `UpdateEvent`, `GetEvent`, `IncSessionCounter`, `GetNextSessionCounter`, `Reset` |
| Configuration | `FvmConfigParser.cpp`, `FvmConfigParserJsonSchema.hpp`, `FreshnessValueManagerConfigAccessor.cpp` | schema, parsed configuration, initialised flag | `Init`, `Parse`, getters |
| Signal manager | `SignalManagerSci.cpp` | caches of frames, PDUs, signals and handlers | constructor, `Subscribe`, `Publish`, `onEvent` |
| Crypto accessor | `src/sok/common/CsmAccessorAraCrypto.cpp` | providers, cache of key identifiers | `IsKeyExists`, `GenerateRandomBytes`, `MacCreate`, `MacVerify` |
| Byte conversions | `include/sok/common/SokUtilities.hpp` | none | integers to bytes and back |
| Result type | `include/sok/common/ErrorOrObjectResult.hpp` | an object or an error | `getObject` asserts that there is one |
| ara interface | `fvm.cpp` | none of its own: all objects share the one FVM of the process | wrap, convert; the destructor calls `Deinit` |
| Diagnostics, logger, factories | headers and `*Factory.cpp` | none | create, write |

### How the parts interact

* The application calls `MainFunction` every 5 ms from a loop of its own
  (`tests/samples/sok_demo/sok_user_sample/SokUserSample.cpp`); that call is
  the only source of time. The stack delivers signals through callbacks at any
  moment. SecOC asks for freshness values from other threads; the sample
  verifies every PDU in a detached thread.
* *Distribution.* The participant publishes a random challenge. The server
  answers with the value and a signature over challenge and value, two
  separate signals, right after its value has grown. It also broadcasts the
  value unprotected; a participant that has a value compares the two.
* *Authentic broadcast.* The source ECU signs a PDU with the value its FVM
  holds; the sink's FVM offers SecOC up to four candidates around its own
  value, one per attempt, and checks a session counter for the IDs that have one.
* *Life cycle.* `Init` reads the configuration, looks for the keys, makes the
  runtime attributes, subscribes to challenge signals and to the signals of
  distribution; any of it can fail after the rest has succeeded. FVM, configuration
  accessor, signal manager and crypto accessor live as long as the process, so
  that what a failed `Init` has done stays done.
* *Challenge-response.* One ECU publishes a challenge for an ID; the other
  uses it as the freshness value of exactly one PDU.

### What is hard, and what would be correct

| Part | Hard to test | What makes it correct |
|---|---|---|
| Clock | the end of an increment is found by `==` | a valid clock never runs past the test |
| Participant | callbacks between any two unprotected steps of `MainFunction`; late answers; timeouts | state, validity, request and received data agree; the state diagram |
| Server | timers run last, flags are read one call later; publications and signatures fail; challenges arrive at any time | two timers stay in step; answers are at an increment; nobody is overlooked |
| Distribution | lost, repeated, delayed, reordered signals; two signals per answer | a value taken over is fresh; a challenge counts once; time is never ahead but by drift |
| Jitter check | unsigned arithmetic, one-sided correction | no false alarm; a bound on what is kept |
| Challenge-response | publish before store; two verifications at a time; expired challenges | each challenge accepted once; no early replacement |
| Authentic broadcast | validity and time are read again after a check; candidates survive failures | accepted in order, counter not ahead, all candidates tried |
| Session counter | carry over bytes | no value comes back early |
| Life cycle | failures half-way, a second `Init`, calls after `Deinit`, odd configurations | initialised means complete but for what is known to be skipped; nothing is set up twice; after `Deinit` only what was under way arrives |
| Synchronisation | halves of old answers, late signals, refused pairs, broadcasts that drop the value | a request is given up in time; nothing but refusals without end, an ended loop or a dead medium keeps a participant out |

`PROJECT.json` lists the hazards one by one, at their lines, with the
properties that cover them or the reason why none does.

## 2. Modules

| Module | Models | Notes |
|---|---|---|
| `FvmClock` | `incTimers`: when the count ends and the value grows | operators shared by participant and server |
| `FvParticipant` | the participant ECU | any signal content at any time |
| `FvParticipantWaiting` | adds how long a request has been waited for | history variable |
| `FvSynchronisation` | adds the loop that calls `MainFunction` and which halves of answers are still to come | liveness |
| `FvServer`, `FvServerWaiting` | the server ECU; the latter adds how long challenges wait | |
| `FvDistribution` | `FvParticipant` and `FvServer` over a medium | `INSTANCE` of both |
| `FvDrift` | `FvParticipant` against a server reduced to its time | real constants |
| `OneTimeChallenge` | what challenge-response promises | abstract specification |
| `ChallengeResponse` | requester and responder of one ID | implements `OneTimeChallenge` |
| `FvmRuntimeAttributes` | the attribute record of one ID | operators only |
| `SessionCounter` | `IncSessionCounter` over and over | |
| `FvFreshness` | source and sink of an authentic broadcast | uses `FvmRuntimeAttributes` |
| `SokUtilities` | integers to bytes, bytes to integers | functions and operators only |
| `ErrorOrObjectResult` | object or error | operators only |
| `FvmConfig` | the schema and the parser, from a JSON document to `SokFmConfig` | operators only |
| `FvmConfigAccessor` | the accessor over a parsed configuration | operators only |
| `SignalManagerSci` | frames, PDUs, signals, handlers | variables and actions, composed by `FvmLifecycle` |
| `CsmAccessorAraCrypto` | keys, providers, failing operations | variables and actions, composed by `FvmLifecycle` |
| `FvmLifecycle` | `Init`, `MainFunction`, `Deinit`, challenge-response in between | composes the five above |
| `NatLemmas`, `FvmClockLemmas` | lemmas of arithmetic, induction and recursion | |
| `FvParticipantProofs`, `FvServerProofs`, `FvDistributionProofs`, `ChallengeResponseProofs`, `FvFreshnessProofs`, `FvmLifecycleProofs` | proofs | |
| `MC...` | symmetry sets, scenarios and configuration files for the runs | |

### Correspondence of state and actions

Variables and actions keep the names of the code; `PROJECT.json` "map" gives
the lines of each definition. Some choices need their reason.

**Participant.** It has two mutexes: the callback of the authentic signals
holds `mRecFVMutex`, that of the unauthentic signal `mRecUnauthFvMutex`, each
from its first to its last change, so that each is one action.
`MainFunction` is split wherever another thread can see or change something in
between:

* `requestAnAuthenticFv` publishes before it stores (`requestPublish`,
  `requestStore`); `waitForAnAuthenticFv` compares the timeout before it locks
  (`waitForAnAuthenticFv`, `requestTimeout`).
* `processAnAuthenticFv` and `processAnUnauthenticFv` write value and validity
  first and the state later (`acceptAuthenticFv` and `acceptedToIdle`, `dropFv`
  and `droppedToRequest`). SecOC's threads read the validity without a lock, and
  the callback under the other mutex runs in between; the one under the same
  mutex does not (`pc # "takenOver"`, `pc # "dropped"`).

The signature is over the seven bytes that follow the first one of the value
received, and all eight are taken over: `Trim` is what is left of a value
without its first byte, and a run has a value that `Trim` changes. The state
dispatch reads `mCurrentFvState` without a lock; the value read may be changed
by a callback before the action locks, but callbacks leave only `FVInProgress`
and `Idle`, in which the actions change nothing that the callback touches but
the split case. `mClockCount` is not reset while the value is invalid and
nothing reads it then, so it rests at a value above every running count.

**Server.** The challenge callback touches only the pending map, under
`mChallengesMutex`, which `sendAuthenticFvResponses` holds throughout; hence `MainFunction`
is one action. A challenge whose answer fails is cleared with the others, and
one that a newer challenge of its client replaces is gone: both count as dealt with. The failure of each publication or signature is chosen freely.
`Trim` is the seven-byte cut of `UintToByteVectorTrim`.

**Medium** (external). Once sent, a signal or PDU may arrive at any time, any
number of times, or never. That is what a bus promises in the worst case, and
covers loss, duplication, delay and reordering.

**Cryptography** (external). A MAC is the record of what it covers, full length,
and `MacVerify` accepts exactly that. Random numbers are never drawn twice. In
`CsmAccessorAraCrypto` there is what the accessor itself does about keys and
failures; `MacVerify` there compares as the code does, by which a beginning of
the MAC is accepted (the server sends eight bytes of it).

**Challenge-response.** Any number of threads trigger challenges: the check of
the old challenge, which publishes the new one, and the store are steps of each
(`TriggerCrRequest`, `TriggerStore`). Responses are counted: the responder
erases a challenge when it hands it out (`discard`), so that a signal the medium
repeats afterwards is stored, and answered, again. `MaxReceived` bounds how
often.

**Authentic broadcast.** `getRxFv` takes no lock; it is split wherever it reads
`mIsFvValid`, the time or the attributes again after having tested them:
`getRxFv`, `consumeCounter`, `activate`, then `buildCandidates`,
`refuseOldActivity` or `readUnbuilt`. `readUnbuilt` is the path on which no
branch has stored candidates: the code then reads the first element of an empty
vector, which the model takes as the death of the process. Map operations are
atomic in the model. All clocks of this module advance together: drift is the
subject of `FvDrift` and `FvDistribution`. What SecOC does is a `Scenario`: in how
many threads it verifies, how many attempts it makes for a PDU and whether it
reports success whatever comes, as the sample does.

**Life cycle.** `Init` is split at every signal it subscribes to, since signals
arrive from then on; `MainFunction` of the server is split at every publication
for the same reason. `Deinit` takes no lock: each of its writes that another
step reads is a step (`Deinit`, `DeinitAttributes`, `DeinitValidity`,
`DeinitTime`, `DeinitSignals`), and it may begin once `MainFunction` has looked
at `mInitialized`. The challenge callback looks an ID up in one step and stores
the challenge in another (`incomingChallengeSignalCb`, `storeChallenge`). It reads
the ID again, from an entry of the map; if `Deinit` has cleared the map, any ID
may be read. A configuration file is missing, empty, malformed, or a
document; `FvmConfig` translates the schema and the parser from the document
on, so that a file with a fault fails where the code has it fail. The order of
an unordered map is chosen freely. Assertions are active in the build (nothing
defines `NDEBUG`): `getObject` of an error ends the process (`dead`). Without
challenge IDs the accessor reads the end of a map: the process dies or nothing
comes of it. The values of distribution, the state machine and SecOC's
candidates are left to the other modules; here a participant's `mIsFvValid`
changes as its `MainFunction` can change it.

## 3. Runs and what they show

Passing runs. The properties are stated and explained in the modules.

| Run | Shows | Bounds, and why they are enough |
|---|---|---|
| `participant` | state machine, clock, validity, received data and the main thread's decisions agree in every interleaving; only the late response leaves the documented diagram; a request is given up in time but for refused pairs; what can keep a participant without a value | 4 periods per increment, timeout of 3 periods; values 0..2, of which 0 and 2 have the same lower bytes, on both sides of the jitter bound; 2 challenges (an open and an older one), whose names return once nothing of them is in use |
| `server` | timers in step, answers on increments, no challenge waits longer than an increment, no broadcast is forgotten | 2 clients (one may fail while the other succeeds), 2 challenges, an increment of 3 periods, a broadcast every 2 increments |
| `distribution` | freshness, one acceptance per challenge, ahead only by drift | 2 challenges (an old answer against a new request), timeout of one increment, loops drift by 1 call; 2.4 million states |
| `drift` | no false alarm within 30 ms, kept values late by at most 30 ms and early by at most two increments | the constants of the code, except that a broadcast comes every second increment; independent loops |
| `challenge_response` | accepted once, spent when accepted, no call replaces what it found waiting; each challenge issued once, answered at most once for each time it is taken up, accepted at most once (`OneTimeChallenge`) | 3 challenges, 2 calling threads, each signal taken up twice, timeout of 2 periods, 4 periods of time, 1 verifier; half a million states up to symmetry |
| `freshness` | the sink's counter is ahead of what was sent by fewer steps than there are threads, and no counter value comes back early; verifying one by one, SecOC gives up only when no candidate fits, and with SecOC as in the sample PDUs are accepted in order and at most once | three scenarios: as documented (2 PDUs, 4 attempts), as in the sample one by one (3 PDUs), and as in the sample with two threads (2 PDUs); a counter of 3 bytes of 6 values (`NoEarlyRepetition` compares with a whole round of them, carries over all bytes included); start-up timeout of one increment; start values on both sides of the "value against time" test; 1.7 million states |
| `lifecycle` | what an initialised FVM has set up, whatever failed before, and what it has skipped; nothing is set up twice; one challenge ID is safe; an answer's bytes arrive as they were sent; no second `Init`; after `Deinit` only challenges that were between look-up and store | 10 configuration files (the shipped one in small, two challenge IDs, none, another number with two clients, a key twice, a wrong version, a missing member, malformed, empty, missing); 3 periods of time with a challenge timeout of one; bytes of 3 values and words of 4 bytes |

**Threads that verify.** The sample verifies every PDU in a detached thread
(`SokUserSample.cpp:145-148`), so that PDUs that come close together are
verified at the same time. What then still holds is `CounterNeverAhead`: two
threads that both find the counter to match before either advances it leave it
one step ahead, and no further PDU matches; n threads leave it n - 1 steps
ahead at most. Order, at-most-once and "given up only when exhausted"
(`AcceptedInOrderOneByOne`, `CandidatesExhausted`) hold as long as verifications
do not overlap, and are stated under that condition (`OneByOne`); with two threads, a
repeated PDU is accepted twice. The same condition is behind `AcceptedOnce` of challenge-response;
`challenge_response_parallel` shows what happens without it.

Deadlock is checked, except in `distribution`, `drift`, the two `lifecycle` and the
`freshness` runs. The life cycle really stops: an assertion can end the process. The
others stop at their bounds on values, time or PDUs. In `participant` the
clock of a valid value stops at `MaxFv` as well, but broadcasts go on
arriving and make the participant drop the value and start again.

Every property has a mutant in `PROJECT.json`: a plausible fault of the code
(operators `Wrong...`, beside what they replace) under which TLC finds the
property violated.

Runs that are meant to find a violation: see [section 5](#5-where-code-and-documentation-differ).

### Fairness, and what keeps a participant out for ever

Only `SynchronisedAgainAndAgain` (run `participant`) needs fairness. What must
happen in other places is stated as safety where the code allows it
(`GivenUpAfterTimeout`, `DealtWithWithinIncrement`, `BroadcastIsRetried`).

* `WF` of the loop (`LoopRuns`): it is a thread of its own that calls
  `MainFunction` every period until it ends. It may be the sample's, which ends
  at the first error (`SokUserSample.cpp:112`): a call whose request fails may
  set `stopped`, and nothing is assumed of a loop that has ended.
* `SF` of a request going out: random numbers and publications may fail, but
  not for ever while the loop runs.
* `SF` of a value and `SF` of a signature arriving while a request waits
  (`ValueArrives`, `SignatureArrives`): each of the two signals of an answer may
  be lost, by itself, but not every one of its kind.
* `WF` of `Forget`, which only gives back the names of challenges, of which the
  run has two.

Beside the answers, signals of every content arrive at any time and in any
number (`StrayArrives`). The property then names the three ways in which a
participant can stay without a valid value for ever:

1. its loop has ended;
2. it is handed pairs again and again that it refuses: late halves that complete
   a pair with the wrong partner, or strays. The code does not bound this; a half
   left over from a lost answer can shift every later pair by one;
3. the fairness above does not hold, that is, the medium is dead.

Anything else, such as timeouts that race with arrivals or halves that come
before the request is recorded, does not keep it out.

`GivenUpAfterTimeout` is about the same requests. `waited` counts the calls of
`MainFunction` during a request, in milliseconds, except calls that refuse a
pair: the request timer stands still in `ProcessFV`, and a refusal goes back to
waiting with the old timer. So a request is waited for no longer than the
timeout and one period for every pair it refused, and there is no bound on these.

## 4. Proofs

TLAPS checks these for every value of the constants; the named assumptions
(`ClockAssumption`, `ParticipantAssumption`, `MacAssumption`,
`DriftAssumption`, `CrAssumption`, `ServerAssumption`, `LeadAssumption`,
`DistributionAssumption`, `FreshnessAssumption`, `NoneAssumption`,
`CounterAssumption`, `WordAssumption`, `LifecycleAssumption`, `FileAssumption`) say what
the code's configuration satisfies: the increment is a multiple of the period, the send
period of the increment, the jitter bound below an increment.
`DistributionAssumption` has one that the code does not enforce: every value
the server reaches fits into the seven bytes of an answer. A server that starts
at a random number just below 2^56 would break it, and its answers would be
refused as too old.

* `NatLemmas`. Multiples, quotients and remainders, powers, and the two things
  that stand in for induction over an operator: `SetInduction` is induction
  over a set of numbers, and `Recursion` says of a recursive function on the
  natural numbers that it satisfies its equation (it is the step function that is
  the parameter, a function in a set and not an operator). Both rest on
  `LeastNatural`, which comes from the library's well-founded order of the numbers.
* `FvmClockLemmas`. Arithmetic of the clock. A count that is a
  multiple of the period and below the increment reaches the increment by an
  equal step (`ClockKeepsRunning`).
* `FvParticipantProofs`. `IInv`, the conjunction of the participant's
  invariants, is inductive. No part is inductive alone: the clock of a valid
  value runs because it starts from 0 together with validity; validity agrees
  with the state only if the publishing or timed-out main thread is not
  overtaken (`MainThreadInStep`), and the agreement is between its two writes,
  not within them. From it follow
  five invariants and the action property on the state diagram. `RequestsTimeOut` is about
  `FvParticipantWaiting`: between two calls the code's timer is what the request
  has waited (`WaitingInv`), refusals left out on both sides.
  The same module has the two theorems about the jitter check (of `FvDrift`),
  `JitterCheckNoFalseAlarm` and `JitterCheckBounds`: the jitter as the code
  computes it is split into its cases (`JitterCases`); the invariant is `IInv`
  and the type of the server's time.
* `FvServerProofs`. `ServerInv`: the server's timers stay in step
  (`TimersInStep`), answers fall on increments (`AnswersAtIncrement`), and a
  due broadcast is not forgotten (`BroadcastNotForgotten`). The step rests on
  the divisibility of the send period: `mTimeSinceInit` is kept modulo it.
  `EveryChallengeIsDealtWith` adds `WaitWithin`: a challenge has waited for no
  more calls than fit into the part of the increment that is over, so that
  the call that answers comes in time.
* `FvDistributionProofs`. Participant and server over a medium that delivers
  anything at any time. `FreshInv`: every signature on its way, or received, is
  over a value the server had after the challenge was issued (`Signed`); from
  it `TakesOverFreshValues`. `OnceInv`: a request in progress works with a
  challenge no value has been taken for; `NoChallengeTakenTwice`. `PaceInv`:
  every signed value is one whole period behind the server's time by the time
  anyone can receive it, because the timers of the server run after its
  answers; `ParticipantNeverAhead`, for every drift. `DistributionTypes` adds
  the types of both sides to these three. `ConnectedAsByThemselves` is what
  justifies the composition: every step of the connected ECUs is a step or a
  stutter of `FvParticipant!Spec` and of `FvServer!Spec`, so that what is proved
  for one ECU and arbitrary signals holds for it in company.
* `ChallengeResponseProofs`. For any number of calling and verifying threads: `TypeCorrect`
  and `KeptUntilTimeout`, of which the invariant is that a challenge about to be
  stored finds none within its timeout, or one that another thread has stored since
  (`TriggeredWhenFree`). With one verifying thread and any number of callers and
  challenges: `SerialReplayProtection`, `AcceptedChallengeIsSpent` and
  `SerialImplementsOneTimeChallenge`. `CrInv` says that an active or verified challenge has been
  published, is about to be stored by no thread, and has not been accepted while
  it is active, and that the responder has answered a challenge no more often than it
  took it up, less the one it holds (`AnswersAreOwed`); each step then is one of
  `OneTimeChallenge` or a stutter.
* `FvFreshnessProofs`, for counters of any length and every clock.
  * `FreshnessTypes`, for any number of verifying threads.
  * `SinkCounterNeverAhead`, for any number of verifying threads. `AheadInv`: how far the
    sink's counter is, together with the threads that have found it to match and
    not yet advanced it (`Consuming`), is less than the PDUs sent and the threads
    there are. With one thread: never ahead.
  * `GivenUpOnlyWhenExhausted`, with one verifying thread, if SecOC makes at least four attempts (the
    `MAX_VERIFY_ATTEMPTS_FV_TYPE` of the code). `OfferInv`: candidates appear
    only during a PDU's first attempt or before it, every earlier attempt has
    failed with its candidate, and a PDU is refused with candidates present
    only when all of them are used up.
  * `CountersApart` and `CountersGoRound`, for any number of verifying
    threads: a counter of n bytes runs through all its 256^n values before one
    of them returns, and PDUs have equal counters only if whole
    rounds are between them. The usual argument, that a
    counter counts, does not apply: `incrementByteArray` carries when a byte
    *was* zero before it is incremented. `ByteCounts` is the argument that does: the
    last byte goes round every 256 PDUs, and each byte before it advances once in
    each round of the bytes behind it, namely when all of them are zero.
    By induction over the bytes, the last k are zero once in every
    256^k PDUs (`LastBytesZeroAfter`), so that the counter is back at its first value
    after 256^n of them (`ReturnsAfterRound`) and not before. `IncrementInjective` carries this
    from the first value to every other one: no two values have the same
    successor, because in the last place in which they differ, the carry is
    the same for both. `SuccessiveInv` says which value the PDUs have.
  * `AcceptanceInOrder`, with one verifying thread, until the counter has gone round (`BeforeRoundEnds`:
    fewer than 256^n PDUs; the code does not prevent more). `OrderInv`: the sink has got
    as far as PDU k, whose counter it has consumed; it has accepted none after
    k, and k itself only if it is not being verified any more; a counter that has
    been found to match still does when it is consumed (`CounterInv`). With distinct
    counters the PDU that matches next is k + 1, wherever in the medium
    the others are.
* `FvmLifecycleProofs`. For every set of configuration files, every order of the maps
  and every failure.
  * `LifecycleTypes`; `OnlyLateChallengesArrive` and `InitialisedAtOnceOrNever`.
    `LifeInv`: the parser has a schema once it has seen a text, a configuration exists
    only if that was the first text and a good one, and an `Init` that is past its
    configuration is the attempt that made it. No later `Init` fills what `Deinit` has cleared, so that after its last step no
    challenge is looked up; those looked up before may still be stored.
  * `OneChallengeIdNeverAsserts`. `SingleInv`: with one ID the list that counts on from
    it is that ID, and no object of an error is taken.
  * `SignalsAreSetUpOnce` and `InitialisedHasAllButSkipped`. `SetUpInv` says
    at every point of `Init` which signals have a handler and which are left:
    a handler is one of a signal taken up already, and what the loops have
    left is yet without one; a challenge whose `Subscribe` failed is in `skipped`, and
    is neither heard nor attributed. Both have the hypothesis that the signals of
    a file are apart (`SignalsApart`): each has a name of its own and a PDU is
    in one frame. The schema does not check it; the files of the run satisfy it
    (`FilesApart`, which TLC evaluates). Without it two challenges would share one
    handler list and `SetUpOnce` fails.
  * `AnswersArriveAsSent`, for bytes and words of any size. `ValueOfBytes` and
    `BytesOfValue`: what `ByteVectorToUint` makes of n bytes has these bytes at the shifts by
    0 to n - 1, and is below `ByteShift[n]`; made into bytes and back, a number of a
    word keeps what fits. `ReceivedBytes` applies this to the way of
    a signal through the SCI library, which fills the seven bytes of an answer up to
    a word with a zero in front.

`FileAssumption` says of JSON what the model leaves to RapidJSON: an array of a
document is a sequence.

Only model-checked is one property of the passing runs, `SynchronisedAgainAndAgain`: it is
liveness, which, like `ENABLED`, is out of the prover's reach. All invariants and action
properties have theorems. For these the conversions and the round of
the counter are written as recursive functions on the natural numbers, not
as folds or powers, of which the prover knows nothing.

The hypothesis of one verifying thread is not for convenience: with two, the
code accepts a repeated PDU twice, and `challenge_response_parallel` shows the
same of responses.

## 5. Where code and documentation differ

| Run | Code | Documentation |
|---|---|---|
| `challenge_response_parallel` | the challenge stays in place until success is reported; two parallel verifications accept two answers to it | `doc/diagrams/challenge-response.puml:59`: "discard the stored challenge value" in `GetRxFreshness` |
| `session_counter_documented` | the carry is taken when a byte was zero before the increment: `[0,0]` is followed by `[1,1]` | `include/sok/fvm/IFvmRuntimeAttributesManager.hpp:79`: "counter + 1" |
| `freshness_replay` | candidates left by a failed verification are offered to later PDUs without the counter check, so that a PDU is accepted twice | `README.md:9`: "replay protection in secure PDUs" |
| `freshness_lost` | `getRxFv` reads the first element of an empty vector when validity is lost between two of its reads | `include/sok/fvm/FreshnessValueManager.hpp:29`: "or recoverable error" |
| `lifecycle_deinit` | `Deinit` clears the map that attributes challenge signals to IDs (`AFreshnessValueManagerImpl.cpp:344`); every challenge that arrives later is refused, and no later `Init` succeeds | `include/sok/fvm/FreshnessValueManager.hpp:76`: "Challenge-response protocols can still be executed." |

Further differences that the models contain but that no run is spent on:

* A response completed between the timeout test and the lock is dropped
  (`ProcessFV` to `RequestFV`), which
  `doc/diagrams/fv_distribution_states_fvm-participant.puml` does not have; the
  property `FollowsStateDiagramButForLateResponse` has it as the only addition.
* `SOK_FM_TIME_JITTER_MAX_MS` is documented as the maximum deviation from the
  reference; the check lets a participant be early by up to two increments
  (`KeptIsBoundedLateAndEarly`).
* A challenge is used after its timeout (the code has a "todo" there), and
  success reported late erases a newer challenge.
* The standard time value signs the first PDU of an ID at any time
  (`TxFv`), not only within `SOK_FM_TIME_VALID_TIMEOUT_MS`.
* `FreshnessValueManager.hpp` says of `Init` that it "resets the internal state
  of SOK-FM to its initial value"; the first `Init` that finds a text is the
  last that can succeed (`OnlyFirstAttemptInitialises`).
* After `Deinit` a challenge that is triggered never grows old either, because
  the time stands still.
* `IFreshnessValueManagerConfigAccessor.hpp` promises a "list of all configured
  FV IDs"; the accessor counts on from one of them. With one challenge ID that is
  harmless (`SingleChallengeIdIsSafe`); with two, `registerToSignals` can take
  the object of an error, which asserts.

## 6. Abstractions, and what is not modelled

* Values of distribution and freshness are numbers; only `SessionCounter`, `FvFreshness`
  (the counter) and `SokUtilities` have bytes. `MaxFv` bounds every value; a
  clock that would pass it stops. The jitter of values below 2^56 fits its signed 64-bit type.
* The responder discards a challenge "for replay protection" when it hands it out
  (`AFreshnessValueManagerImpl.cpp:58`); a challenge signal that the medium repeats
  after that is answered again. `OneTimeChallenge` says so: what is promised is that
  one of the answers is accepted.
* A data race in the unordered maps is undefined behaviour beyond these models.
* One thread at a time calls `Init`. `Deinit` during a verification of
  SecOC's is not modelled (`FvmLifecycle` has no candidates, `FvFreshness` no `Deinit`).
* JSON text and its grammar (RapidJSON), the SCI library and `ara::crypto` are
  external: they succeed or fail. The OpenSSL accessor exists for tests and is left out.
* The ara wrapper converts arguments and results. Its copies run over the ends
  of vectors (`fvm.cpp:35`, `:47`), which is undefined behaviour and not modelled;
  its destructor, which deinitialises the FVM for everybody, is (`DestroyFVM`).
* Diagnostics, logger and factories: no state that any behaviour depends on.

## 7. What could come next

The plan of this project is carried out: distribution, challenge-response,
authentic broadcast, life cycle, the abstract one-time challenge, liveness and the
proofs above. Left open are

1. a server whose value passes 2^56, composed with a participant;
2. several IDs at once in `FvFreshness`: the code keeps them apart by map keys only.
