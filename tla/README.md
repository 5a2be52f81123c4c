# Verification of node-ecies-lib

TLA+ models of this library, TLC configurations that check them on small
instances, and proofs that TLAPS checks for every value of the constants. Every
definition is translated from the source; `PROJECT.json` names the lines it
stands for (`map`), the hazards of the code (`hazards`), and for every property
a mistake in the code it would notice (`mutants`).

## 1. The system and its parts

| part | state | operations | what is hard |
| --- | --- | --- | --- |
| `VotingPoll` (`lib/voting/poll.ts`) | encrypted tallies, receipts by member id, `closedAt` | four voting functions, `generateEncryptedReceipt`, `close`, reports | tallies change before the receipt that records the voter; tallies wrap at n; reports computed apart from each other |
| `NodeVoteLogger` (`lib/voting/node-persistent-state.ts`) | a file, a write stream, `voteCount` | `appendVote`, `replayVotes`, `close` | replay of a growing file in chunks, crashes that cut an entry, fixed-size fields |
| `NodeCheckpointManager` (same file) | a directory, `checkpointNumber` | save, load the latest, list | overlapping calls, half-written files, file operations that fail, name order, restarts |
| `BatchVoteProcessor` (`lib/voting/persistent-state.ts`) | `totalVotes`, the batch of its base class | `addVote`, `processBatch`, `checkpoint` | awaits in a loop over an array that grows; failures half-way |
| `VotingService` (`services/voting.service.ts`) | a generator per call | HKDF, deterministic generator, number theory, key derivation, key formats | boundary values, damaged buffers |
| isolated Paillier keys (`isolated-*.ts`) | `currentInstanceId` of a key | encrypt, add, multiply, decrypt, `updateInstanceId` | tags of an earlier instance; what travels with a key and what does not |
| ECIES formats (`services/ecies/*-recipient.ts`, `multi-recipient-processor.ts`) | none | build and read messages and chunks | sizes computed in several places; readers that meet cut, changed and spliced buffers |
| `EciesFileService` (`services/ecies/file.ts`) | files | encrypt and decrypt files | a file that changes between stat and read |
| `EncryptionStream`, `ChunkProcessor` (`services/`) | locals of async generators | encrypt and decrypt, for one and several recipients | chunks lost, repeated, reordered; abort during an await; the last chunk |
| stream transforms (`transforms/`), `CrcService` (`services/crc.ts`) | leftover buffers, cipher state, running sums | callbacks of Node streams | pieces cut anywhere, connections that break, data and end events in any order |
| runtime configuration (`constants.ts`, `typed-configuration.ts`), invariant validator | current configuration, registered checks | create, register, validate | values captured at import; sizes that must agree |
| `ECIESService`, `CryptoContainer` | a configuration | make services | parameters and provider come from different places |
| `Member`, `MemberBuilder` | wallet, private key, voting keys, a kept mnemonic | make, load, unload, derive, sign, encrypt, JSON | order of calls, what remains after an unload |
| GUIDs and id providers (`lib/guid.ts`, `lib/id-providers/`) | bytes, cached forms | conversions, clones | caches of a buffer that can be written |
| `SecureBuffer` (`secure-buffer.ts`) | obfuscated bytes, checksum, disposed flag | read, `idBuffer`, `dispose` | the id is the key |
| `Pbkdf2Service`, `AESGCMService` | profiles, shared by services | register, derive, seal and open | profiles that change during a derivation |

How they meet. A `BatchVoteProcessor` awaits `appendVote` of a logger for every
vote and calls `saveCheckpoint`; its model takes the log as the journal that the
model of the logger is shown to implement. A `VotingPoll` and an isolated key use
the Paillier keys that `VotingService` derives. `Member`, the transforms, the
streams and the file service put their bytes into the single- and multi-recipient
formats. A `Member` has the service it was made with, a service its configuration
and the current id provider: whether a member can receive depends on all three.

Nothing runs in parallel: JavaScript interleaves at `await`, at `yield`, and at
callbacks. An action of a model is what runs from one such point to the next.

## 2. Modules

| module | models | state and actions |
| --- | --- | --- |
| `PollResults` | reports of a poll | operators on a vector of tallies |
| `VotingPoll` | `VotingPoll` | `votes`, `receipts`, `closed` as in the class, one action per public function; `ledger`, `issued` are history |
| `BallotBox` | abstract | a box takes one legal ballot per identity until it is sealed |
| `VoteLog` | `NodeVoteLogger` | files of cells, the stream's queue, a replay; `AppendVote` ends at its await, `Written` is the callback, `ReadChunk` one turn of the `for await` |
| `Journal` | abstract | entries are only appended; a reading gives them in order |
| `Checkpoints` | `NodeCheckpointManager` | a save, a load and a listing go from one awaited file operation to the next, each of which may fail; the history says which saves had returned when a load or a listing was called |
| `BatchVoteProcessor` | the class of that name | one action per await of `processBatch` |
| `EncryptionStream` | `EncryptionStream`, `ChunkProcessor` | one action per stretch between awaits and yields; between the ends `Lose`, `Repeat`, `Move` |
| `Delivery` | abstract | bytes are given in order, the end is told when all are given |
| `VotingNumbers`, `VotingKeyFormat`, `KeyDraws` | `VotingService` | operators: arithmetic and key derivation, stored keys, HKDF and generator |
| `IsolatedKeys` | isolated keys, over these three | key objects, tagged ciphertexts, instance ids; one action per method, and `Change` of a ciphertext |
| `SingleRecipient`, `MultiRecipient`, `EncryptedFile` | the formats | operators that write and read sequences of cells, `Refused` where the code throws |
| `EciesExchange` | members who use these formats | `sent`, `arrived`, a file being encrypted read by read; what arrives is cut, changed or spliced |
| `XorStreams`, `CrcStreams` | XOR of several sources; `CrcService` | data, end and error events |
| `Transforms` | all transforms, over `SingleRecipient` | a pipeline of an encrypting transform, a checksum, a connection and a decrypting transform; an `XorTransform` |
| `Configurations` | configurations, validator, services | creating, registering, validating, services and containers |
| `Members` | members and builders, over `Configurations` | making, JSON, loading and unloading, voting keys, signatures, messages, streams |
| `Guids`, `SecureBuffers`, `Passwords` | the three parts of that name | memory cells and caches; buffers and their ids; profiles, derivations, sealed buffers |
| `Identities` | these four together | |
| `*Proofs` | theorems about the module of that name; `TransformsProofs` has those of `XorStreams` too, `IdentitiesProofs` those of `Members`, `Guids`, `SecureBuffers`, `Passwords` and `IsolatedKeys` | |
| `MC...` | small instances | values of constants only |

Abstractions. A cipher, a MAC or a hash is a term of what it was made of, so it
opens or verifies exactly when the inputs are the same: nothing is claimed about
the cryptography itself. A buffer is a sequence of cells, a cell being a field of
the format or a byte of data; sizes are scaled down and their sums kept. In the
log a cell stands for a field or for 32 bytes of a value, so that a read at a
wrong place takes any number for a size. A receipt is the position at which it
was issued, for the nonce makes each different from all others. Bytes of a stream
are positions in the message. In a poll, homomorphic addition is addition modulo
n. A GUID is a number with its version; its string forms are that number in
another format. The arithmetic of `VotingNumbers` is carried out, with moduli of
10 bits. Wording, progress reports, names, addresses and dates are left out.
Definitions whose comment begins with "Mistake" are wrong variants that the
properties must tell from the right ones; no specification uses them.

## 3. Runs

| run | question | instance |
| --- | --- | --- |
| `poll_core` | one ballot per identity, reports that agree, refinement of `BallotBox` | 3 choices, modulus 11, 3 Member objects of 2 identities, weights 0, 5, 9: two ballots wrap a tally |
| `poll_faults` | what is left when receipts fail, an encryption throws in the middle of a ballot and receipts are issued directly, also once the poll is closed | 2 choices, modulus 5, up to 3 receipts and 2 ballots per identity |
| `poll_double_vote` | violation: a member votes twice | as above |
| `log_core` | replay through a crash and a restart, counting, close and replay end, refinement of `Journal` | 1 logger, 3 appends of two votes with 1 and 2 values, chunks of 4 and 20 cells: entries are cut everywhere |
| `log_wide` | violation: a value of more than 32 bytes | values of two cells |
| `checkpoint_saves` | overlapping and failing saves, loads and listings, through restarts | 2 saves at a time, a process that has saved nothing or eight checkpoints, 4 more snapshots (up to twelve files), listings of up to 4 files |
| `batch_processing` | count and log in step, nothing lost or repeated | 3 votes, 2 calls at a time, 4 log entries |
| `streams` | a prefix is given, the end told truly, aborts stop, all arrives; refinement of `Delivery` | lengths around multiples of the chunk size 2, pieces 0, 1, 3, two faults |
| `voting_keys` | keys derived, used, revoked, stored and damaged | 2 identities, one given also without its leading zero; 2 key objects, 3 ciphertexts, 3 instance ids; the primality test up to 2500 |
| `ecies_exchange` | every message that opens was sent, whole messages open, files come back | 2 members and a recipient with a longer id, 2 messages, one file written once meanwhile, chunks of one symmetric key or of several, one buffer cut at any place, changed at any place or spliced of two |
| `transforms` | output is a prefix, the checksum tells whether it is whole, XOR, all arrives | lengths 0, 1, 4, 5, writes of up to 3, pieces of 2 and 7, block sizes from less than no room to too much room; 2 XOR sources |
| `identities` | who can receive, keys, JSON, GUIDs, secure buffers, password keys | 4 providers, one of them broken, two that read each other's ids; AES services whose cipher has another key length or which have another IV; 2 members, 2 mnemonics; 2 GUIDs, 2 buffers, 2 derivations, 2 sealed buffers |

The bounds are small and sufficient for what can happen: double voting needs two
calls, a wrapped tally two weights, interference of saves two calls, a misread
entry one cut entry and one behind it, confusion of chunks two of them and one
fault (two allow a loss that a repetition hides), a splice two messages, a key
taken for another's two members. In `identities` one of the four parts acts in a
behaviour, for they share no state; configurations are validated before members
are made and members are made before they use their keys, for neither depends on
the later step (`MembersNext`). Every constant that begins with `Max` and is
declared as a bound is a guard of the model only. `MaxDataSize`, `MaxRecipients`
and `MaxAttempts` are limits of the code. Deadlock is not checked: each system
may come to rest (a closed poll, a finished stream).

Fairness. `VoteLog` assumes that the event loop completes the writes, reads and
closings that were begun, `EncryptionStream` that the source gives its bytes and
the consumer asks for the next chunk, `Transforms` that Node's pipeline goes on
while there is something to write, to deliver or to flush. Nothing is assumed of
callers otherwise, and no fairness of crashes, aborts, faults or broken
connections.

## 4. Where the code and its documents differ

The two violation runs contradict a document (quoted under `findings`). What
follows was met while modelling; the properties of the passing runs state what
holds in spite of it, with the exception in the property.

* Log and checkpoints: votes appended behind an entry that a crash has cut are
  misread (`node-persistent-state.ts:80`; the condition `buried`). A new process
  numbers its checkpoints from zero again, so an older one may be loaded
  (`:188`; `rewound`). From the eleventh checkpoint on the names are out of
  order (`:224`; the property asks for the first ten). A save that is under way,
  was cut by a crash or has failed leaves a file that does not parse: a load
  whose `readdir` names it after all others gives null, and a listing is empty,
  also when no save was under way as they were called (`:221`, `:239`; `half`).
* Streams: a message whose length is a multiple of the chunk size ends without a
  chunk that is marked as the last (`encryption-stream.ts:169`).
* Formats: `encryptStreamMultiple` encrypts all chunks of a stream with one
  symmetric key (`encryption-stream.ts:222`), and `encryptChunk` takes any key:
  two chunks are told apart by what is authenticated with their data, the
  ephemeral key, index and flag, alone. A message for several recipients with a
  preamble is written and cannot be opened; one without data cannot be parsed;
  `consumedBytes` ignores the preamble; `encryptChunk` does not check the size
  of ids; the length that `service.ts` computes for 'multiple' leaves out the
  ids and differs from `utilities.ts`. A file that is written between `stat` and
  the reads gives a mixture without an error; its chunks carry no number.
* Transforms: a cut at a block boundary is not noticed, only the checksum tells.
  A chunk given by a source before its last one was used replaces that one; a
  source that ends with data unused, or a leftover of length zero, ends the XOR
  stream (`xorMultipleTransform.ts:44`): two sources that take turns with chunks
  of one length end it after the first of each, and what they give later is lost
  or fails as a push after the end (`EndsForWant`). With a negative capacity the
  encrypting transform sends one block before it fails; `XorTransform` drops
  what later chunks have behind the end of the first and writes into the
  caller's first chunk. The synchronous verification of `CrcService` reads only
  the first bytes of the expected buffer, the asynchronous one compares all of
  it.
* Configurations: `new ECIESService(config)` without parameters takes the
  provider of `config` and the default id size, and so refuses its own members
  when the provider is not the default one; `CryptoContainer` does the reverse.
  `ENCRYPTION.RECIPIENT_ID_SIZE` stays 12, so `validateAll` refuses every
  configuration with GUIDs unless it is overridden; a configuration without
  `ENCRYPTION`, as those of the base library, passes.
* Voting keys: the constructor of a private key and `bufferToIsolatedPrivateKey`
  take a public key of any pair (`isolated-private.ts:49`); what such a key
  decrypts is some number, without an error (`pairOf`).
* Members: `MemberBuilder.newMember` uses the configuration of the import, the
  other functions the current one; a mnemonic kept by a builder makes two
  members with one key and two ids; a service reads a member of another provider
  if ids have the same form (`buffer-provider.ts:72`); `unregisterInvariant`
  removes only the first check of a name.
* GUIDs: cached forms stay after the bytes were written; `parseSafe` takes a hex
  form without letters for a decimal number; the nil and the maximal value pass
  `validate` and are refused by `fromBytes`; the empty GUID is one object for
  all.
* Passwords: what `deriveKey` returns names neither algorithm nor length;
  profiles are shared by the services made from one record; `decrypt` wants an
  IV of 16 bytes whatever `IV_SIZE` is; a service whose `KEY_BITS` are not those
  of the cipher it names takes no key at all.

## 5. Theorems

`VotingPollProofs` proves, for every number of choices, modulus, set of Member
objects, identities and weights: the types; `OneBallotPerId`, from the invariant
that an identity with a ballot in the tallies has a receipt (this is what a
failing receipt breaks, hence the assumption `~ReceiptsMayFail`); the refinement
of `BallotBox`, from the lemmas that each voting function adds a legal ballot;
`LatestReceiptVerifies`, from the invariant that the stored receipt is the last
one issued to its identity; `VotersAreCounted`; `ResultsFinalOnceClosed`, which
says exactly what a direct `generateEncryptedReceipt` still changes of a closed
poll, its voter count; and `ReceiptEndsVoting`. The last two hold in every mode,
also after an encryption that throws in the middle of a ballot.
`TalliesMatchLedger` is inductive by itself once the points of a ledger are
known to grow by the points of the ballot that is added; the set of ids is
assumed finite (`IdsAssumption`), ids having a fixed number of bytes.
`ReportsAgree` is no matter of steps: the results, the leaders, the winner and
the margin are computed by separate loops over the tallies, and any tallies make
them agree.

`EncryptionStreamProofs` proves, for all lengths, piece and chunk sizes and any
number of faults and aborts: the types, `GivenIsPrefix`, `LastMeansWhole` and
`AbortStops`. The receiver checks only the index, so the invariant says what an
index means: the chunks yielded are contiguous and numbered in order, the flag
is on the chunk that ends the message and on no other, and whatever is on its
way or in hand is the data of a chunk that was yielded. Then the chunk with the
expected index is the one that follows what was given. The stream implements
`Delivery` step by step: without faults nothing is missing between the ends, so
that also the end of the input tells the truth (`DeliveryInv`).

`VoteLogProofs` proves, for any jurisdictions, votes, chunk sizes and crashes:
the types; `ReadableVotesStay`, for files only grow and what the loop of
`replayVotes` finds in a file is a beginning of what it finds in a longer one;
and, when every jurisdiction has its own file (`OwnPaths`) and no value has more
than 32 bytes (`Narrow`), `ReplayFaithful`, `ReplayComplete` and the refinement of
`Journal`. Both hypotheses are needed: the ids that are no Buffer share one file,
and a longer value makes the entry unreadable, as `log_wide` shows. The way there
is that what is found in a buffer does not depend on where it was cut
(`ReadInPieces`), that a serialised vote is read as that vote
(`SerializedComesBack`), and the invariant `LogInv`: the file of a logger holds
the votes appended and at most a torn entry behind them, and a reader has been
given what is found in the part of the file it has read.

`CheckpointsProofs` proves, for any number of calls under way, snapshots, failed
file operations and crashes: the types, `OwnCheckpointsStay`, `ListComplete` and
`LoadFindsSaved`. A save has its number from the moment of its snapshot, so the
numbers of saves under way differ and a file is written by one save only. Until a
restarted process gives a number again, number n belongs to snapshot n + 1 alone,
so a file either is not whole or has the snapshot of its number, and what a save
has returned for stays whole. A load and a listing remember which saves had
returned when they were called: these files are among the names they are given,
whatever is written between the steps. The names sort like `Rank`, a number that
puts 10 before 2; below ten it is the order of the numbers.

`BatchVoteProcessorProofs` proves, for any votes, calls and failures: the types,
`CountedVotesAreLogged` and `NoVoteLostOrRepeated`. The histories `entries` and
`counted` say which positions of the log the loop of a call has filled: nobody
owns the position of another, a count takes as many as the call owns, and only a
failure leaves positions that nobody counts. The votes of calls that do not
overlap are in one place, the batch, the rest of an array, or the log.

`IdentitiesProofs` proves `MembersCanReceive`, `JsonComesBack`,
`KeysBelongToMember`, `BuffersHold` and `SealedComesBack`, for specifications in
which the parts of `Identities` take their steps in any order: the bound that the
run puts on their interleaving is none of the theorems'. The behaviours of the
run are among those (`MembersAmongIdentities`, `BuffersAmongIdentities`,
`PasswordsAmongIdentities`). What a member is made with never changes, so it is
enough that each way to make one gives an id of the provider of its service and
the key of the identity, and that every key it holds later is that one or none.
A GUID has a cell of memory of its own, and what it keeps is what is in the cell
until somebody writes there. What a `SecureBuffer` holds follows from what was
put in, whether it is disposed of, and its id; with anything but the id, the
checksum does not fit. A sealed buffer remembers which derivation its key came
from, and a derivation keeps the configuration it was begun with, whatever
becomes of the profiles (`PasswordsInv`); the tag behind the IV names the key, the
IV and the value, so an altered buffer opens with no key.

`TransformsProofs` proves `XorOfAll` for any number of sources, any chunks and
any order of their events, from the assumption that there is a source and that
the plans are sequences of sizes. While no chunk has replaced bytes that were
not used, the buffer of a source begins behind the bytes that were pushed; the
least of the lengths exists because the numbers are well-founded
(`LeastNumber`), so while the stream is open some source has nothing left, and
it ends only when a source has ended or has nothing that is not pushed.
`XorTransform` needs only that its chunk is the union so far. It also proves
`OutputIsPrefix` and `ChecksumTellsWhole` of the pipeline. The invariant
`PipeInv` says that there are cuts of the message such that each block sent is
the encryption of the bytes between two of them; what has arrived is a beginning
of what was sent, the decrypting side has given the bytes up to the last cut it
has passed and buffers the rest, and whatever block size it assumes, a block
read at a wrong place has no tag that fits.

`EciesExchangeProofs` proves `OpenedWasSent`, for any members, recipients,
messages and sizes, and whatever is made of the messages on their way. To open
anything is to find a tag among the cells that arrived, and a tag names its key,
additional data, IV and text. So the invariant `AllMade` says of every tag, in a
message that was sent, in the file that is being encrypted and in the buffer that
arrives, that it was made for a message that is listed, and what for; the rest
reads the formats and shows that what opens has such a tag where it is looked
for, and that tags of one form are not those of another. `BytesAssumption` keeps
fields and tags of the formats out of plaintexts, preambles and ids, so a
ciphertext that is encrypted again is left out; and no id is empty. The symmetric
key of a chunk is the caller's: a fresh one, or one that earlier chunks had. Two
chunks of one key are still kept apart, since the tag over the data names the
header, and the header the ephemeral key.
It also proves `FileComesBack`, for files and chunks of any size. Its invariant
`AllWhole` says of every record which call made its cells, and of a file where its
header and each chunk lie: the chunk lengths that are computed from the size read
at first add up to that size, whatever is written to the file meanwhile. So in
whatever part of an encrypted file arrives, each chunk either lies whole where the
header says, and opens, or is cut, and is refused, as its tag is missing or the
length in its header is not that of its cells.
From `AllWhole` follows `WholeMessagesOpen` as well, for lists of any length and
texts of any size: what each format writes is read back field by field (the header
of a message for several with its ids and keys, the entries of a chunk, of which
each says where the next begins), the entry a recipient finds was made for this
recipient, and the tag that is looked for is the tag that was made. This takes one
assumption more: `IdAssumption`, that no member's id is the beginning of another's.
The code draws ids at random and of one length; two members with one id would take
each other's entry, and a chunk, which keeps as much of an id as there is room for,
would not tell an id from its beginning. The exceptions in the property are proved
with the rest: a message behind a preamble is refused because the cell looked for
as the tag is of the preamble, or the IV.

`IdentitiesProofs` also proves `StoredKeysAreWhole` and `RevocationIsFinal` of
`IsolatedKeys`, for key pairs of any size. A key comes back from its buffer when
it is made of natural numbers: the digits of a number, which `Digits` computes by
recursion, are proved to give it back, and the lengths in a buffer to be those of
its parts. That the derivation makes such numbers is the other half: an accepted
candidate is 2 or more, the loops of `gcd`, `modPow` and `modInverse` end and
give numbers, and what is inverted, `(power - 1) / n`, is one because every power
of `n + 1` leaves 1 when it is divided by `n`. Nothing is assumed of the primes,
and of the draws only that they are numbers (`DrawsAssumption`; in the code they
are bytes). Instance ids are numbered as they are made, so a renewed object has an
id that no private key remembers.

The library's induction theorems take an operator as a parameter and cannot be
used here. Where the proofs need induction over data (sums of ledgers, entries
of a log, cells of a message, digits of a number), `NumbersInduction` takes a
set of numbers in the place of the predicate; it follows from `LeastNumber`, and
that from the well-foundedness of the numbers. In the same way `Recursion` says
that a function exists which follows a recursion over ranks, so that the
recursive functions of `VotingNumbers` and `VotingKeyFormat` are what their
definitions say.

The largest of the proofs is that of `DecryptsWhatWasEncrypted`, for key pairs of
any size, any messages and any order of calls; to the assumption about the draws
comes only that messages are numbers (`MessagesAssumption`: what is encrypted are
weights and counts). It does not assume that the primes are primes, since the code
does not know it either. What the code does know of an accepted candidate p is
that p is odd and passes the round with the witness 4, which is the first of
`millerRabinTest` whatever the digests of the later rounds are. From this follows
2^(p-1) = 1 modulo p (`FourWitnesses`): a power of 4 met in that round is 1 or -1,
and p - 1 is a multiple of twice its exponent in the first case and of four times
in the second, unless -1 is met last; but then 2^(p-1) would be -1, which is
impossible modulo an odd p (`TwoToIsNeverMinusOne`). That impossibility is counted:
multiplying by g with g^(2^r) = -1 divides 1 .. p - 1 into cycles of 2^(r+1) numbers
each (`MinusOneTurns`, `CyclesDivide`), so 2^(r+1) divides p - 1, and the exponent
of 2 in p - 1 would have to exceed itself. Then 2^lambda is 1 modulo p and q, and
2^(n lambda) is 1 modulo n = p q (`PowersOfBoth`); that it is 1 modulo n n as well is
what the trial encryption in `generateDeterministicKeyPair` shows (`TrialShows`),
which so turns out to be needed for exactly this; and gcd(n, lambda) = 1 makes mu
the inverse of lambda (`MuInverts`). A key with these properties is a `WorkingKey`
and decrypts every product of encryptions (`EncryptionDecrypts`). The invariant
over the steps is `CiphersInv` beside `KeysInv`: the public keys with a key id that
verifies have a working modulus, a private key has the lambda and mu of its
modulus, also after it was stored, and every ciphertext whose tag fits is an
encryption of its plaintext, sums and multiples included.

A private key that was made with the public key of another pair is a key of the
model too: it decrypts no changed ciphertext, and the rest is claimed of keys
whose pair and public key have one modulus (`pairOf`, which is history).

`DecryptsWhatWasEncrypted` uses the model's random factor, 2 and what becomes of
it in products. For other factors a number that only passes for a prime can fail,
so `AnyFactorDecrypts` assumes primes: then every message comes back that was
encrypted with any factor prime to n. It rests on Fermat's little theorem (`Fermat`,
again by counting cycles), on the lemma that a prime that divides a product divides
a factor (`PrimeDividesFactor`), and on p and q being different, which
`generateDeterministicKeyPair` checks. In the other direction `PrimesPassTheTest`
proves that `millerRabinTest` refuses no prime, whatever the number of rounds and
the witnesses, and `PrimesAreAccepted` that neither does the trial division before
it: a derivation gives up only when none of its candidates is prime. All the
arithmetic needed is proved in the module, from congruences on.

What is only model-checked: liveness (`CloseReturns`, `ReplayEnds`,
`EventuallyWhole` and what the runs check under fairness; out of the prover's
reach); and `PrimesComeFromFreshDraws`. One half of it says that the test decides
primality up to 2500. That it accepts the primes among them is
`PrimesPassTheTest`; that it refuses the others is a computation for each of them,
and no theorem for all n is to be had, since every choice of witnesses has its
pseudoprimes. The other half, `DrawsNeverRepeat`, says of two constants, the
chain of digests of the generator, that they differ everywhere, and would need
that no HMAC is among its own inputs, which the terms of the model do not say
without induction over them.

## 6. Not modelled

`ProgressTracker` averages a speed for display. The voting adapters are
subclasses of `@digitaldefiance/ecies-lib` whose state is in the base class, which
is not in this repository. Texts, types, examples and the showcase carry no
behaviour of the library.

Partly modelled: of GUIDs, versions 1, 3 and 5 (other ways to make the number);
of the invariant validator, the checks of algorithms and profiles (constants
that nothing changes); of the typed wrappers, the cache of validated providers;
of `Member`, `loadPrivateKey` and `loadVotingKeys` of the base class, which take
any key they are given and are not this repository's code; of the ECIES
primitives, the curve and cipher calls; of a logger, ids that are no Buffer,
which all share one file (`SharedPath` is there, the run uses Buffer ids as the
tests do).

Hazards known and without a property: a chunk size of zero keeps
`encryptStream` from ending (`encryption-stream.ts:116`); an abort while the
source hangs is not noticed (`:94`); nobody listens to the error event of the
log's write stream (`node-persistent-state.ts:35`), which the model takes for a
crash.

## 7. Plan

The order was: the poll, the log with its checkpoints and batches, the streams,
the voting keys, the message formats, the transforms, the identities; each with
its abstract specification where there is one, then the proofs. What remains:

* a composition of `BatchVoteProcessor`, `VoteLog` and `Checkpoints` in one
  module, so that a crash hits all three at one moment and the recovery from a
  checkpoint and the log behind it can be stated as a whole.
