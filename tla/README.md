# A TLA+ model of the Aeron archive client

This directory specifies the C++ client of the Aeron archive: what happens
between a call of `AeronArchive` and its return, when threads share the client,
answers are late or never come, and other clients use the same stream; and what
a process makes of these calls that records, replays and watches its recordings
while the driver and the archive go on beside it. The model checker TLC checks small instances; TLAPS proves the main results for
every value of the constants.

File names are those of the repository (`src/AeronArchive.cpp` and so on).

## The system

| Part | State | Operations | Interacts with |
| --- | --- | --- | --- |
| `AeronArchive` | `lock_`, `controlSessionId_`, one proxy, two pollers | connect; start, extend, stop recording; start, stop replay; list recordings; queries; `pollForErrorResponse`, `checkForErrorResponse` | calls the proxy, polls with the pollers, all under `lock_` |
| `ArchiveProxy` | one buffer of 4096 bytes, retry and timeout settings | one method per request; `offer`, `offerWithTimeout`, `tryConnect` | offers to an Aeron exclusive publication |
| `ControlResponsePoller` | fields of the last response, `isPollComplete_` | `poll`, `onFragment` | handler of `Subscription::controlledPoll` |
| `RecordingDescriptorPoller` | `correlationId_`, `remainingRecordCount_`, `consumer_`, `isDispatchComplete_` | `reset`, `poll`, `onFragment` | same subscription; calls the user's consumer |
| `RecordingPos` | none (reads the driver's counters) | find a counter by recording or session, `getRecordingId`, `isActive` | races with the driver |
| `RecordingEventsAdapter` | three callbacks | `poll` | polled by the second thread of `RecordingThroughput` |
| `ChannelUri` | media and parameters | `parse`, `put`, `toString`, `addSessionId` | used by `Context` and the composed operations |
| `Context`, `Configuration` | settings, a built request channel | setters, `conclude`, environment, property file | read by the constructor of `AeronArchive` |
| `PropertiesReader` | key/value map | `parseLine`, `get` | used by `Configuration` |
| composed operations of `AeronArchive` | none of their own, no lock between their steps | `addRecordedPublication`, `addRecordedExclusivePublication`, `stopRecording(publication)`, `replay` | a call, and a publication or subscription of Aeron |
| `RecordedBasicPublisher` | the latest recording, a publication, a counter, `running` | list, publish, start or extend, wait | calls, counters, SIGINT |
| `RecordingThroughput` | `isRecording_`, `stopPosition_`, `running`, two threads | rounds of publishing; polling of events | calls, recording events, SIGINT |
| `ReplayedBasicSubscriber`, `DriverControl` | none to speak of | replay and print; one command | calls |

### What is hard here

* **One stream for everything.** The answers of all calls, of calls that timed
  out, the archive's later errors and the messages to other clients arrive on
  one subscription. Correctness rests on comparing session, template and
  correlation id, in the right order, in three places.
* **Threads.** `lock_` is the only thing that keeps two requests from being
  encoded into one buffer and two threads from taking each other's answers.
* **Time.** Every loop has a deadline, but looks at it only in some branches.
* **State that outlives a call.** The pollers keep their last message, their
  error code and their consumer.
* **Someone else's memory.** The counters of the driver are read in several
  steps, while the driver frees and reuses them.
* **Flags without synchronisation.** The threads of `RecordingThroughput` share
  two plain variables.
* **Partial failure.** A publication is there and its recording is not, or the
  other way round. Encoding, offering, polling and the handlers can all fail
  or throw with the previous steps done.

`PROJECT.json` lists each hazard with the line where it bites and the properties
that would notice.

### What makes each part correct

* *AeronArchive*: a value returned is the archive's answer to this request; an
  error is this session's; no thread takes another's answer; every call ends.
* *Pollers*: a listing's consumer sees that listing's recordings, once, in order,
  during the call; the count returned is what there was.
* *ArchiveProxy*: a request arrives whole and once or not at all, and the caller
  is told which; it is retried as often as configured.
* *Connecting*: the session adopted is the one the archive opened for this
  request; a failure leaves nothing behind.
* *Composed operations*: a publication that is returned is recorded and one
  thread's own; a subscription that is returned is to the caller's replay.
* *RecordingPos*: a search is right about every counter that did not change
  meanwhile.
* *Events, samples*: the measuring thread and the publisher see the end of a
  recording, and no earlier; an extension goes on where the recording ended;
  the processes come to their ends.
* *ChannelUri, Context, Configuration, PropertiesReader*: what was set is what is
  used; parsing and printing are inverse where they should be.

## Modules

| Module | Contents |
| --- | --- |
| `ArchiveMessages` | the messages of the control response stream |
| `ControlResponsePoller` | the poller as a value: reset and handler |
| `RecordingDescriptorPoller` | likewise, with dispatch to a consumer |
| `ArchiveCalls` | abstract: a call asks once and ends with what the archive said to it, or without an answer |
| `AeronArchive` | the calls of an open client: state machine, properties, inductive invariant; implements `ArchiveCalls` |
| `MCAeronArchive` | instances for TLC |
| `AeronArchiveProofs` | type correctness, the inductive invariant and what follows |
| `ListingProofs` | listings are in order and complete; answers are not lost; the refinement of `ArchiveCalls` |
| `ArchiveSessions` | abstract: an attempt to connect asks once and gets the session opened for it, or fails |
| `ArchiveConnect` | the constructor of `AeronArchive`, for several clients of one driver; implements `ArchiveSessions` |
| `MCArchiveConnect` | instances for TLC |
| `ArchiveConnectProofs` | type correctness, the inductive invariant and what follows; the refinement |
| `RequestStream` | abstract: a request is accepted once, whole, or refused |
| `ArchiveProxy` | encoding and the three ways to offer; implements `RequestStream` |
| `MCArchiveProxy` | instance for TLC |
| `ArchiveProxyProofs` | invariants, retries and the refinement |
| `ChannelUri` | parsing and printing a channel, and what parsing should find, without a state machine |
| `PropertiesReader` | reading the lines of a property file |
| `ArchiveContext` | settings from the environment or a file, the setters, the request channel |
| `MCArchiveContext` | instance for TLC: texts, files, environments |
| `ArchiveContextProofs` | what the parsers find and the printer prints, for texts of any length; the invariant of the settings |
| `Recordings` | external: publications, recordings, counters, events, replays, as a process sees them |
| `RecordingPos` | reading the driver's counters, one read at a time |
| `RecordedBasicPublisher` | the publishing sample |
| `ArchiveOperations` | the composed operations, for several threads |
| `RecordingThroughput` | the measuring sample and `RecordingEventsAdapter` |
| `RecordingClients` | composes the five above: one process and its surroundings |
| `MCRecordingClients` | instance for TLC |
| `RecordingsProofs` | powers of two and wrapping, and the types of the whole composition |
| `RecordingClientsProofs` | an inductive invariant of the composed operations and what follows; replays |
| `SampleProofs` | the search of the counters, counters and their recordings, and the two samples |

`AeronArchive` uses the pollers as constant-level modules: they are values that
only the owner of `lock_` changes, so it is the client that interleaves their
steps with the archive. It uses the proxy in its abstract form: `Send` is
`RequestStream`'s `Accept`, `FailToSend` its `Refuse`, and `ArchiveProxy` shows
that the retrying code justifies that.

### AeronArchive: state and actions

A thread goes `idle -> lock -> send -> poll -> fragment` and from there back to
`poll` or out. `Call` is any public operation, `Lock` the `unique_lock` and the
correlation id drawn under it, `Send` and `FailToSend` the proxy call, `Poll` the
reset at the start of a `poll()`, and the `...Fragment` actions one invocation of
a handler each, so that messages arrive, the connection breaks and the clock runs
between any two. `PollForResponse`, `PollForDescriptors` and `PollForError` are
what the caller makes of a finished poll. `Leave` is every way out: the destructor
of `unique_lock` releases the lock also when an exception passes.

The calls differ in their request and in how they wait, not in anything else,
so there are four kinds: `response` (everything through
`callAndPollForResponse`), `descriptors` (the three listings) and the two error
polls, which send nothing.

`NoId` is the -1 that the poller stores in its ids. The clock is a flag: the
deadline of the call under way has passed or not. `expired` is reset where the
code computes a new deadline. A poll goes over the images of the subscription in
any order, up to `FragmentLimit` fragments; `BREAK` ends the poll of one image
only, as in Aeron. `HandlerPropagates` says what becomes of an exception that a
handler throws: TRUE, it leaves `poll()`, which is what the source is written
for; FALSE, Aeron catches it while polling the image and hands it to its own error
handler, and the caller's loop goes on.

External: the archive (answers each request once, lists recordings in order and
may end a listing early, may report an error after the answer, may do nothing at
all), the other clients, the images, the connection and the clock. An image
delivers in order. A disconnection loses what the images held and is final.

*What it implements.* `ArchiveCalls` has no threads that wait, no polls, no stream
and no clock: a call begins, its request is accepted or not, its consumer is given
the recordings that the archive has listed so far, one at a time, and the call
ends. The caller sees at once what the archive said. The mapping takes the caller
from `lock`, the call from the request of the lock's owner, and what was said
from `sent`; queues, pollers, images, connection and deadline are hidden. What
`ArchiveCalls` allows is what a user may count on: a value or a count is this
request's; a count is returned only when the consumer was given everything that
was listed, and the archive had listed as many as were asked for or had said that there
are no more, so never for a listing that it only ended with `ERROR`; an error may be
an earlier request's; after `notSent` the archive was never asked, after a timeout
or a broken connection it may have carried the request out, or may still do it.

### ArchiveProxy: state and actions

`Begin` is a call of a request method with `lock_` held, `EncodeHeader` and
`EncodeBody` write into the buffer that all methods share, `FailToEncode` is the
exception of a channel that does not fit. `Offer`, `OfferWithTimeout` and
`TryConnect` are one round of the loops of the same names. A buffer is two tags:
of which request the header is and of which the body. The publication is in one
of four states and may fail any offer with the results of its state.

### ArchiveConnect: state and actions

A client goes `new -> findSubscription -> findPublication -> connect ->
awaitConnection -> poll -> fragment` and ends `open` or `failed`; a failed one may
be tried again (`Construct`). The actions `Poll` to `ThrowingFragment` are those of
`AeronArchive` with one poller per client. `AwaitSessionOpened` is what follows a
finished poll: `pollNextResponse` and the body of the loop in
`awaitSessionOpened`. `Connect` and `FailToConnect` are `RequestStream`'s `Accept`
and `Refuse`. `AeronArchive` starts where `open` ends.

External: the driver (registrations, correlation ids), the archive, which opens a
session or refuses and sends every answer to all subscriptions that are
connected, and the clients that are connected already (`Traffic`). Correlation
ids come from the driver's counter, so clients of one driver never draw the same
one; that others on the stream do not either is `UniqueIdAssumption`. The code
relies on it, as it has nothing else to compare with.

*What it implements.* In `ArchiveSessions` a client is `connecting` from its first
step to its last, draws an id, asks once and reads what became of its request
from the archive itself. The mapping hides subscriptions, pollers, traffic and
deadlines. It may end with a session only if the archive opened it for this very
id, may say `refused` only if it was, and may say that nothing was sent only if
nothing was. `GiveUp` leaves the request as it is: a session that is opened for it is
nobody's, and a second attempt has another id and never gets it.

### ChannelUri, PropertiesReader, ArchiveContext: texts

A text is a sequence of symbols: the separators that the code looks for and
words for the rest. `ParseSymbol` is one round of the loop of either parser, `After`
what is known after each symbol of a text, and `Read` after each line of a file.
These are recursive functions, so that they can be reasoned about. `ToStrings` and `AddSessionId` give every text that the order of the hash map
allows. `ReadEnvironment`, `ReadFile` are the two constructors of `Configuration`,
`Construct` that of `Context`, `Set` the setters that only change a setting,
`SetControlRequestChannel` the one that builds the channel, `SetAeron` and
`SetAeronDirectoryName` those of the client. `Connect` is the moment at which
`AeronArchive` takes its copy and concludes it (`Conclude`: a client is made, in the
context's directory, if none was given). `AddSessionId` is the
use of a channel by `AeronArchive`. `given` and `givenWith` remember what the request
channel was made of, for the properties.

### Recordings: what is outside the process

`ArchiveCalls` says what a call may come to, and `AeronArchive` implements it; here a
call is one of these outcomes. `Ask` is
the request under `lock_`, `Serve` and `Refuse` what the archive does about it,
and the caller returns or throws: also after the archive has done what it was
asked (an answer that is too late), and also before (`GiveUp`), when the request
stays in `late` and may be carried out at any time later (`ServeLate`).

A recording is started for an image that someone wants recorded
(`StartRecording`), by the publication's session or for any session, gets a
counter in two steps (`WriteMetadata` inside `StartRecording`, then
`AllocateCounter`), grows (`Record`) and ends (`StopRecording`) when nobody
wants it or all of a closed publication is recorded. A counter that is freed
keeps its metadata until it is used again, by another recording or for
something else (`OtherCounter`). Events are told to whoever listens and are
dropped when too many are under way, as on the unreliable events channel.

### RecordingPos: state and actions

`reader` is a call of `findCounterIdBySession`, `findCounterIdByRecording` or
`getRecordingId`: which counter it is at and which of the three reads (state, type,
key) comes next. Between any two reads the driver may do anything. `touched`
remembers which counters changed while a search was under way; nothing reads it
but the properties.

### RecordedBasicPublisher: state and actions

`pc[Main]` is the place in `main()`: `list`, `add`, `start` or extend, `find` the
counter, `offer`, `await` and `isActive`, `stop`. `ListRecordings` and `Latest` are
`getLatestRecordingData`, whose consumer keeps the last descriptor it is given.
`TermId` and `TermOffset` are the arithmetic of the extended channel, with the
conversion to 32 bits. `Interrupted` to `Found` are the search loop, `Offer` one
round of the publishing loop, `AllRecorded` to `ReportStopped` the wait for the
recording. `Fail` is every exception. `positionBitsToShift` is the constant
`TermBits`, the logarithm that its table holds.

### ArchiveOperations: state and actions

A thread is `idle`, or in an operation: `added` (it has a publication that is not
recorded yet) and `starting`; `stopping`; `replay` and `subscribing`. Threads
that add the same channel and stream share a publication, and only the first is
its original: that `isOriginal()` is false for a second add of the same publication by one
Aeron client is Aeron's promise, outside `src/`, and `HeldByOne` rests on it. `holds` and `replaying` are what the operations have returned.
`AddSessionId` gives the channel of one session, `Narrow` the 32 bits of a 64-bit
replay session id that the code passes to it.

### RecordingThroughput: state and actions

The main thread goes `record -> round -> stores -> publish -> await -> repeat` and
ends in the destructor, `join` and `stop`. The two stores at the start of a round
are two steps in either order, since neither variable is atomic. The polling
thread goes `subscribe -> poll -> handle`, takes one event at a time, and clears
the flag in a step of its own (`ClearIsRecording`), so that the main thread may
store in between. `Crash` is a division by a duration of 0 ms, or an exception
that leaves the destructor.

### RecordingClients: the composition

`program` says what the process is: one of the samples, two threads with the
composed operations, or a thread that searches for a recording's counter. The
programs share `Recordings` and `RecordingPos` and never run together, so each is
checked against the same surroundings.

## Runs

| Run | Instance | Distinct states | Shows |
| --- | --- | --- | --- |
| `responses` | 2 threads, 2 requests, 1 foreign message, 1 late error, 1 image, queue of 2 | 363,000 | `ValueIsOwnAnswer`, `ErrorIsOfThisSession`, `AnswerIsNotLost`, `IInv` |
| `listings` | 2 threads, listings of 0 and 2 beside other calls | 1,508,000 | `TypeOK`, `DeliveredInOrder`, `CountIsComplete`, `IInv`, `ConsumerRunsInItsCall`, `ImplementsCalls` |
| `shared_stream` | two images, handlers' exceptions kept by Aeron | 2,100,000 | `ValueIsOwnAnswer`, `DeliveredInOrder`, `CountIsComplete` |
| `progress` | 1 thread, 2 requests of all kinds, fairness | 597,000 | `CallReturns` |
| `endless_traffic` | 1 thread, unbounded foreign traffic | stops at a counterexample | `CallReturns` is violated |
| `proxy_requests` | 2 callers, 3 requests, 3 attempts | 41,000 | `TypeOK`, `RetriesAsConfigured`, `ConnectThrowsForGood`, `ImplementsRequestStream`, `MethodReturns` |
| `connecting` | 2 clients, 2 attempts, 1 image, 1 message of others | 579,000 | `SessionIsOwn`, `RefusalIsOwn`, `AnswerIsSeen`, `IInv`, `ImplementsSessions` |
| `constructors` | 1 client, 2 attempts, 2 images, handlers' exceptions kept by Aeron, fairness | 45,000 | `SessionIsOwn`, `ConstructorEnds` |
| `settings` | all channel bodies of 5 symbols, all lines of 5, files of 2 lines, empty ones and comments among them | 94,000 | `ParsesAsCut`, `SessionIdIsAdded`, `RequestChannelIsAsGiven`, `PlainFileIsRead` |
| `stale_settings` | the same | stops at a counterexample | `RequestChannelHasSettings` is violated |
| `recording_clients` | each program with 2 recordings, 2 counters, 2 sessions of its own and 1 other, fairness | 434,000 | `TypeOK`, `ExtensionContinues`, `ExtensionStopReportIsTrue`, `HeldByOne`, `HeldIsRecorded`, `ReplayIsOwn`, `FirstRoundIsRecorded`, `SearchIsRight`, `InterruptEnds`, `QuitEnds` |
| `unexpected_stop` | the publishing sample alone | stops at a counterexample | `StopReportIsTrue` is violated |

Each property is also shown to be able to fail: `PROJECT.json` names for each a
mutant, a definition changed the way a mistake in the code would change it, that
makes TLC report that property. The mutants stand next to the definitions they
change and nothing else uses them.

**Bounds.** Two threads are enough for one to interfere with another, since
only the owner of `lock_` moves; two requests for an answer to be late; a queue
of two for a stale message to stand before the right one; a listing of two for
the second descriptor to be late or out of order; one foreign message for each
of the filters to matter, as it ranges over all templates, codes and
ids; two images for `BREAK` to be different from the end of a poll. The safety
properties `TypeOK`, `IInv`, `ValueIsOwnAnswer`, `ErrorIsOfThisSession`,
`DeliveredInOrder`, `CountIsComplete`, `ConsumerRunsInItsCall`, `ImplementsCalls` and all
those of the proxy and of the settings are proved without the bounds, and `AnswerIsNotLost` for one image. So are
`SessionIsOwn`, `RefusalIsOwn`, `IInv` and `ImplementsSessions` of the connecting clients, `AnswerIsSeen` for
one image, and all safety properties of `recording_clients`.
Two clients and two attempts let an answer come to a client that waits for
another, to a second attempt as well as to another client. Five symbols are
enough for a channel with two parameters, for a repeated key, and for each
separator to be where it does not separate. `ThreadSymmetry` and `ClientSymmetry`
are used only in runs without liveness properties.

In `recording_clients`, `std::int32_t` has three bits, a term two positions and
the first term is the last before the wrap, so that the old recording, which ends
at position 3, is extended across it (`ExtensionContinues`). Replay sessions are
3 and -3, so that their ids need more than the low half. Two counters are enough
for a search to pass one that changes before it comes to the one that is sought;
the lowest free counter is given out first. One event is under way at a time;
a second is dropped, as a lost event is. Two rounds let an event of the first come in the
second. Three operations let one thread fail while another joins and a third
call is late. The surroundings move while the process lives (`Alive`), and only in what
the program can see (`Others`): the composed operations read no recording, and
only the measuring sample reads events; it and the operations begin with nothing
recorded.

**Fairness.** A thread that can take a step takes it, and the clock does not
stop (`WF` on `ThreadStep` and `DeadlinePasses`). Nothing is assumed of the archive,
of the network, or of callers. `lock_` is a `std::mutex`, which promises no order,
so nothing is claimed for a thread that waits for it: `CallReturns` is about its
owner. `progress` bounds the messages of other clients (`NoiseIsBounded`);
`endless_traffic` shows why.

The same for a client that connects (`FairSpec` of `ArchiveConnect`), and that a
registration is answered or fails: `findSubscription` and
`findExclusivePublication` throw when the driver does not answer in time, which
is what ends the loops in the constructor.

`FairSpec` of `RecordingClients`: each thread of a sample goes on, so does a search
of the counters, a call of `AeronArchive` ends (`CallReturns` of `AeronArchive`, up
to what `endless_traffic` shows), and the archive takes the next step of every recording
it has (`Archiving`). Nothing is assumed of other clients or of SIGINT. The user of the measuring
sample may ask for another round or quit, but after the last round (`MaxRounds`) only
`Quit` is left, and the fairness of the main thread takes it. So `QuitEnds` does assume one
thing of the user: that after some round he answers that he wants no more.
Only one call is asked at a time, so the fairness of `CallEnds` is about that one.

**The violations.** `endless_traffic`: `src/Configuration.cpp:34` calls the message timeout the
"Timeout when waiting on a message to be sent or received." In `pollNextResponse`
the deadline is looked at only after a poll without fragments. A call to an
archive that stays silent, while others are answered on the same stream, finds
a message in every poll: of another session, so that `pollForResponse` skips it and
starts over, or of a template that the poll drops. It never gets to line 395.

`stale_settings`: the same file calls three settings the term length, the MTU and
the sparseness "for control streams" (lines 63 to 71). The setters of `Context` that
bear their names change the setting, and the getter shows it, but the request
channel was built in the constructor of `Context` and keeps the old value, unless
`controlRequestChannel` is called afterwards.

`unexpected_stop`: `samples/RecordedBasicPublisher.cpp` waits "for recording to
complete" (184) and reports that it "has stopped unexpectedly" (187) when
`isActive` denies that the counter belongs to `recording.recordingId`: the recording that
was the latest before this one. The id of its own recording is in `recordingId` (143).
Unless the sample extends a recording the report is false: the recording is
active and behind the publication, and the sample closes the publication and
asks the archive to stop. Where it extends a recording the two are the same, and
`ExtensionStopReportIsTrue` and `InterruptEnds` hold. Where there was no recording
before, the id is -1, and so is what `getRecordingId` returns of a counter that is
gone: then the wait never ends, not even after SIGINT, which is why
`InterruptEnds` is about extensions.

## Proofs

`tlapm` checks `AeronArchiveProofs`, `ListingProofs`, `ArchiveConnectProofs`,
`ArchiveProxyProofs`, `ArchiveContextProofs`, `RecordingsProofs`,
`RecordingClientsProofs` and `SampleProofs`. The assumptions are the `ASSUME`s of the
modules: what types the constants have, that nobody is called `Nobody` or
`NoRequest`, `UniqueIdAssumption`, and that a number is printed as a symbol of its own
(`NumeralAssumption`). Three theorems assume more, in their
statement: `AnswersAreKept` and `AnswersAreSeen` that one image carries the
responses, without which they are false (see Limits), and `ExtensionContinuesHolds`
that the old recording is shorter than 2^31 terms, `2^(IntBits - 1)` in the model:
the sample counts terms in a `std::int32_t`, and Aeron does not publish beyond.

*AeronArchive.* `ValueIsOwnAnswer` looks back: at the moment a call returns, the
archive had sent this answer. It is not inductive, because a step that returns
relies on what the poller holds, that on what the queue held, and that on what
the archive sent. `IInv` adds these links:

* `LockInv`: `lock_` is held exactly from `Lock` to `Leave`, so one thread polls;
* `LatestInv`: the call under way has the latest correlation id;
* `SentInv`: what the archive sent is about requests already made;
* `StreamInv`: a response of this session in a queue was sent by the archive;
* `PollerInv`: so was the response the poller holds, between the start of a poll
  and its end. Here the reset in `poll()` matters: without it the message of an
  earlier poll, or of the connecting client, would be taken for a new one;
* `SessionInv`: both pollers look for the same session;
* `ConsumerInv`: while a listing waits, the poller dispatches for that listing.

`InductiveInvariant` proves `Spec => []IInv` from `TypeCorrect` with one lemma per
conjunct; `OwnAnswer`, `OwnErrors` and `OwnConsumer` follow.

*Listings.* `DeliveredInOrder` and `CountIsComplete` are about how far a listing has
got. `Progress(c, n)` says that what was given to the consumer of `c` and what is on
its way are, in this order, what the archive has said so far, of `n` recordings at
most; and that a poller which is done has come to the end of it. It holds for the
listing that waits (`ProgressInv`), because only the holder of the lock takes
fragments, only the image of this session carries its messages (`PlaceInv`), nothing
on the stream is ahead of what the archive said (`SaidInv`, `OrderInv`), and a
request starts with an id that nothing on the stream bears yet (`FreshInv`). A
count, once returned, can be read until the next call has the lock (`ResultInv`).
The last descriptor and an early end are the two ways to be done, and the proof is
different for each: the remaining count of 1, and an end that no descriptor is
behind. `ListingInvariant` proves it all; `ListingsInOrder` and `CountsAreComplete`
follow.

*Answers.* `AnswersAreKept` proves `AnswerIsNotLost` from `Images = {own}`: with one
image, a response that the handler took has ended the poll (`VisitInv`), so that the
caller looks at it before anything else is handled; and what others take from the
stream while a call waits is nothing, as they need the lock. Without that
assumption the property is false (see Limits).

*Calls.* `CallRefinement` proves `Spec => ImplementsCalls`, from `IInv`, the invariant of
the listings and `CallInv`, which adds the few facts that a detached observer of a
call needs: what was sent is a response of this session (`SentShapeInv`); what
`pollForResponse` waits for was asked, and as one response (`KindInv`); only an OK
carries a value (`ValueInv`); and a poller that is done has counted to 0, or the
archive has ended this listing without an error (`CompleteInv`). Only the owner of
the lock, who is the caller, and the archive take steps that are visible:

* `LockCalls`, `SendCalls`: `Lock` is `Begin`, `Send` and `FailToSend` are themselves;
* `FragmentCalls`: a fragment is `Consume` when it reaches the consumer. That it is the
  next recording, and listed, is what `Progress` says. Any other fragment stutters,
  unless its handler throws: that is `GiveUp`;
* `PollForResponseCalls`, `PollForDescriptorsCalls`, `PollForErrorCalls`: a poll that is
  over stutters or ends the call. `PolledIsSaid` and `ErrorEnds` say that a response
  in the poller was said, and about which request;
* `ArchiveCallsToo`: what the archive does is done there, too; `CallsStutter` says the
  rest, which is calls that wait for the lock, traffic, clock and connection.

*ArchiveConnect.* `SessionIsOwn` needs that what a poller holds is what the archive
did (`PollerInv`), hence that what is queued is (`StreamInv`); this stays true
because a request is answered once (`ArchiveInv`), which rests on every id being
drawn once and asked with once (`IdInv`). `OutcomeInv` ties the outcome that
`RefusalIsOwn` speaks of to the place of the constructor. `InductiveInvariant`,
`OwnSession` and `OwnRefusal` follow as above. `AnswersAreSeen` is `AnswersAreKept`
for a constructor: with one image the handled answer has ended the poll and no image
is left to visit (`VisitInv`), so an answer that reached the stream of a constructor
that waits is still in the queue, or in the poller with nothing between it and the
constructor's look (`SeenInv`). The traffic of others can only queue up behind it.

`SessionRefinement` proves `Spec => ImplementsSessions` from `IInv` and `AttemptInv`: an
attempt has no id until it has its publication, and one that waits has asked.
Without the first, an attempt after a failed one could be taken to ask under its old
id, and without the second a constructor that gives up could be taken for one
that sent nothing. `OpenedStep` has one step per action; the archive's answer is the
moment at which the session is opened, and the client's `AwaitSessionOpened` that at which
it gets to know it, which `PollerInv` shows to be the same session.

*ArchiveProxy.* `PInv` says that the lock is held throughout a method, that the
holder's tags are in the buffer once they are encoded, and that `attempts` and
`offers` add up. From it: `TypeCorrect`, `Retries`, `ConnectFailsForGood`, and
`Refinement`, which maps `Begin` to `Ask`, an accepted offer to `Accept`, every other
return to `Refuse` and the rest to stuttering.

*RecordingClients.* `HeldByOne` and `HeldIsRecorded` are about what a thread has
after an operation, and rest on what others may do to the same publication
while it is not recorded yet. `OperationsInv` adds: what a thread works on is a
publication it uses (`WorkInv`, `UsersInv`); the call it makes is for that
publication (`CallInv`); at most one thread is the owner, the one that may record
it or has it (`OwnerInv`); and once an owner has been answered the session is
recorded until its owner asks to stop (`RecordedInv`). The last needs that a late request
to stop is for a session whose owner asked, which is what `stopAsked` remembers.
A session is never used again, as the driver draws them from a counter. The
other programs leave all this alone, which the proof says program by program.
`HeldByOneHolds` and `HeldIsRecordedHolds` follow.

*Recording clients: types.* `TypeOK` is not inductive: a thread stores what a call, an
event or a search gives it. `TypeInv` adds what these carry: what a call asks for and
its listing, what each kind of event says, that a search finds a counter or
none, and which local variables are set at which place. `TypesCorrect` follows.
The listing needs an argument of its own: the model sorts the recordings by
`CHOOSE`, and `RankExists` shows that each place in the order is taken.

*Replays.* `ReplayIsOwn` says that the subscription which `replay` returns is of the
replay that was started for it. `ReplaySessionsInv`: the low bits of the id of a replay
are its session, in two's complement, and no two replays have a session in
common; `CarriedInv`: what a call or a thread carries is the id of one of them. The
conversion to `std::int32_t` undoes what the archive did (`NarrowIsSession`), for
every width. `ReplayIsOwnHolds` follows.

*Searches.* `SearchInv` says that every counter a search has passed, and that
was not touched since, is not the one it seeks, and what the reads made so far say of
the counter it is at. `SearchIsRightHolds` follows, for every number of counters.
`CounterInv` is about what is searched: a recording that lives has a counter of its
own, and an allocated counter of type `recordingPos` counts an active recording.

*RecordedBasicPublisher.* `ExtensionContinues` is about the place that the sample asks
for when it extends a recording. `ExtendInv` follows the stop position from the
recording through the listing to `add`; `TermsAreUndone` says that the three
parameters computed from it lead back to it: the quotient by the term length is
added to the initial term id with wrap-around, and the difference of the two ids, wrapped again,
is the quotient. The solver knows no powers, so facts about `2^n` come from the
number of subsets of `1..n`.

`ExtensionStopReportIsTrue` has to follow the recording from the search of the
latest to the report. `StopReportInv`: the sample makes one call at a time and a request
that was given up comes late only when the sample is over (`CallsInv`); its
session is recorded by the recording it extends and by no other (`OnlyExtension`);
the counter that was found counts this recording until somebody stops it, and
then it stays stopped, because nobody else may extend it (`FoundInv`). So when
`isActive` denies that the counter is of the recording, and nobody touched the counter, the
recording is stopped. The proof needs `CounterInv` and `SearchInv`: the search that found the
counter was right.

*RecordingThroughput.* `FirstRoundIsRecorded` relates the archive to two threads that
share two variables without a lock. `RecordedInv`: no recording is ahead of its
publication, and an event says what has happened already. `FirstRoundInv`: while the
first round lasts, what is in `clearedBy` has an event that is not the round's, or has
everything, or was stopped (`IsSeen`); if the flag is down after it was set, something
cleared it. This holds between the stores of the flag and of the stop position too,
in either order: nothing is published yet, so no progress event of the round's own
recording can be handled there.

*Texts.* What the parsers find is proved for texts of any length, by induction over the
text. The library's induction theorems cannot be used here, as they take an
operator; `Induction` comes from the least element of a well-founded relation, and
is about sets of numbers. The recursive functions first need to exist: `AfterDef`,
`PrintedDef`, `LineRunDef` and `FileRunDef` show that, each with a function built for every
length by `Induction`. A text is a sequence of `Symbol`: all strings, with the literals of the
modules added, which the provers do not know to be strings.

* `ParseIsCut`: `UrisByCutting` says what parsing should find without a state machine:
  a body is cut at places that alternate between a separator that ends a key
  and one that ends a value. `Knows` says what the parser knows after `k` symbols if there is a
  cut: the piece it reads, and the pairs before, the last of each key. Conversely
  a parser that does not throw has cut what it has read (`IsCutUpTo`). So a text that can be
  cut is accepted and gives this channel, and a text that is accepted can be cut; no
  text can be cut into two different channels. `ParsesAsCutAlways` follows.
* `PrintedIsParsed`: `IsUri` is what `Parse` gives: no key holds an `=`, no value a `|`. For such
  a channel, every text of `ToStrings` is read back as this channel, in whatever order the
  map is walked: after `n` pairs the parser has read these `n` (`IsPrinted`). What the client adds is
  such a pair: that is where `NumeralAssumption` is needed. `SessionIdIsAddedAlways` and
  `RequestChannelIsAsGivenAlways` follow.
* `PlainLineIsRead`: in a plain line the key ends at the first `=` and the value goes to the end
  (`IsPlainRun`); that a position is passed where a length is wanted makes no difference,
  as the key begins at 0 and `substr` stops at the end of the line. `SilentLineIsRead`: an empty
  line or a comment is over before a key begins, so it adds a pair that no setting has for a key.
  `PlainFileIsReadAsItLooks` goes through the lines (`RegularLineIsRead`): emplacing keeps
  the first value of a key. `PlainFileIsReadAlways` follows.

`SettingsInv` carries these facts from the step that reads or prints to the states that
follow: the texts are texts and the settings of their types (`TextsAreTexts`), and what was
made of them is what they mean (`AddedIsMeant`, `RequestChannelIsMeant`, `FileIsMeant`). A setter
changes the settings but not those that the request channel was made with, which
`givenWith` keeps: that is what `stale_settings` shows.

*Only model-checked*: liveness (`CallReturns`, `ConstructorEnds`, `MethodReturns`,
`InterruptEnds`, `QuitEnds`), which needs fairness and `ENABLED` and is out of the prover's
reach. Every safety property of the passing runs is a theorem. What the runs that
stop at a counterexample show is TLC's alone.

## Limits

* With two publishers on the response stream `AnswerIsNotLost` does not hold:
  `BREAK` ends the poll of one image, the next image's message overwrites the
  fields of the poller in the same `poll()`, and the caller, whose answer it was,
  times out. No line of the repository claims otherwise. The property is checked
  with one image. A constructor can lose its answer in the same way
  (`AnswerIsSeen`).
* Requests keep their kind, record count and id; descriptors their recording id;
  errors lose their text; `SUBSCRIPTION_UNKNOWN` is treated by the client as
  `RECORDING_UNKNOWN` outside listings and is left out.
* Callers do nothing but call. A consumer that calls the client from inside a
  listing would lock `lock_` twice.
* Correlation ids are drawn from one counter. Other clients' requests have ids
  of the same range, the hardest case for the filters.
* `PropertiesReader` passes a position where a length is wanted. The model does
  the same: a key behind a blank and a value before a comment come out wrong.
  No line of the repository says what such lines mean, so `PlainFileIsRead` is
  about files of lines that start with their key and have no comment, empty lines and
  lines that are a comment, like those of `samples/archive.properties`. Words are of one character, numerals have one spelling.
* The flag `AERON_ARCHIVE_CONTROL_TERM_BUFFER_SPARSE` goes through `lexical_cast<bool>`
  (`Configuration.cpp:29`), which throws at `true`, the value that the repository's
  `README.md:68` lists as its default; a property file takes `true`. Both are modelled
  (`LexicalCast`, `ParseValue`), no property is about it.
* A session that the archive opens for a constructor which has given up stays
  open: the model shows it, no line promises otherwise.
* **`RecordingThroughput`.** The properties say what the two threads do get right. The
  model also shows, and no line of the repository promises otherwise: a progress
  event that is handled before `stopPosition_` is stored (108) is lost, and the main
  thread waits for good (116); the handlers do not look at the recording id, so an event
  of an earlier round or of another recording ends a later round; SIGINT, an
  unknown template or a failed subscription ends the polling thread, and the main thread
  waits for good; after an exception in `main` the destructor joins a thread
  that was told nothing (64); a duration of 0 ms divides by zero (111, 172), and
  an exception of `stopRecording` in the destructor ends the process.
* **Composed operations.** After a failed `startRecording` the archive may go on
  recording the session or begin to, when the request arrives late
  (`AeronArchive.cpp:133`); after a failed `addSubscription` nobody has the id of the
  replay (235). `findLastMatchingRecording` returns 64 bits as 32 (300).
* **`RecordedBasicPublisher`.** Only the first 100 recordings are listed, so "the latest"
  (123) is the latest of them; the model's listing has that limit, and no
  instance reaches it. An active recording has the stop position -1: the
  arithmetic gives a term before the first, which the driver refuses.
* The driver may free and reuse a counter between the read of its state and that
  of its key, and a search may return a counter that is another's by then.
  `SearchIsRight` excludes it by `touched`; the code does not check again.
* In `Recordings` there is one channel and stream, and the archive is taken to
  refuse what it documents to refuse: a second subscription of the same session,
  and an extension of an active recording.

### Not modelled

* `ReplayedBasicSubscriber`: a call of `replay` and a loop that prints. Its state is
  Aeron's subscription.
* `DriverControl`: single calls; what it does to others is `OthersStop`.
* `asyncConnect` and the second constructor of `AeronArchive`: stubs.
* Command lines, console output, the generated codecs, the test suite and the build.

## Plan

All components that keep state of their own are modelled, every safety property of the
passing runs is a theorem, and each of the three layers of a call (one request, one call,
one session) is shown to implement what it promises to the next.
What is left is out of reach for now: liveness for every number of threads and clients.
