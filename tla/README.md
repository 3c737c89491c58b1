# Verification of resolution-receipt

TLA+ models of `resolution_receipt`: what a signed resolution record is, when a
lineage of records verifies, when an action is permitted on it, and what the
commands do to the files they share. The modules are translated from
`src/resolution_receipt/` and `scripts/audit_release.py`; every definition that
models code is mapped to its lines in `PROJECT.json`. Names of the code are kept
(`verify_resolution`, `_build_body`, `derive_authority_state`), so a definition
can be read beside the function it stands for. Python exceptions are how the code
says no: a function that raises `ReceiptError` is a predicate here, true when the
function returns.

## 1. The system

The library keeps no state of its own. Its state is the signed JSON objects that
people hold, the files of the command line, the native systems that adapters
ask, and, inside one call, the variables of a few loops. What makes it hard is
that these move independently: signers publish and correct records, approvals
travel as objects of their own and can be put beside another body, native answers
change between two steps of a verification, and a verifier may be handed any list
of objects in any order.

| Component (source) | State | Operations | Correct when |
|---|---|---|---|
| RLP-1 kernel (`resolution.py`) | none | validate checks and evidence references, derive the state, build, sign, verify a record | the state says exactly what the required checks earned |
| RLP-1 lineages (`resolution.py`) | loop variables `previous`, `latest` | `verify_resolution_lineage` | it returns only for one history, its head determines it, honest histories are not refused |
| Envelopes (`core.py`) | key files | `sign_envelope`, `verify_envelope`, `hash_object` | an object verifies only as its signer signed it |
| Authority (`authority.py`) | none | validate policies, sign and verify approvals and transition approvals, derive the authority state | AUTHORIZED only with the consent of a quorum to this very body |
| Native evidence (`verification.py`) | adapter registry of the caller | run adapters, bind results to specs, recompute | no resolved check rests on evidence not VERIFIED; a recomputed verdict was witnessed |
| Scopes (`scope.py`) | scope adapter registry of the caller | containment, monotonicity | an effective scope never exceeds its original |
| Action policy (`policy.py`) | none | validate, decide | PERMIT only if every term of the core invariant holds |
| RLP-2 records (`rlp2.py`) | loop variables `previous`, `current` | sign, verify alone or with a predecessor, walk a lineage, decide an action | one history, earned authority, consented policy changes, external bootstrap |
| RLP-2 heads (`rlp2.py`) | the candidates of a call, the verdicts so far | compare candidate lineages, gate across them | a fork or a superseded head is never permitted on, and the order of the candidates does not matter |
| Receipt bundle (`core.py`) | none | `verify_bundle` | three independent parties, every reference to the exact object |
| Technocore (`core.py`) | the service's room (external) | make and verify requests and records | a stored record is of the room, nonce and signer it says |
| Artifact files (`core.py`) | the files of a directory | load, create exclusively and fill, remove what could not be filled | what was once read or reported never changes; a commitment is over a salt that exists |
| Command line (`cli.py`) | each process: what it has loaded, what it will write | ten commands, each reading files, computing, writing one file | each ends; what it passes still stands on disk |
| Encodings (`core.py`) | none | canonical JSON, base64url, base58, did:key | injective and canonical |
| Release audit (`scripts/audit_release.py`) | public files | one pass over a fixed set of files | no audited file could be another |

How they interact: `rlp2.py` builds a body with the RLP-1 kernel, `scope.py`,
`verification.py` and `authority.py`; `verify_rlp2_lineage` calls
`verify_rlp2_resolution` for each record (which runs the adapters again if the
verifier has any) and `verify_resolution` for an RLP-1 ancestor;
`verify_and_decide_action` hands the last verdict to `policy.py`;
`verify_and_decide_action_heads` walks several lineages one after another and
hands on the verdict only if they end in one head. The commands meet only in
the files of a directory and, through people who post requests and save
records, in the service. The hazards of each component are listed at their lines in `PROJECT.json`.

## 2. Modules

| Module | Models | Kind |
|---|---|---|
| `Envelopes` | signing, verifying, digests | operators |
| `Resolution` | the RLP-1 kernel and the verification of one record | operators |
| `ResolutionLineage` | signers, and `verify_resolution_lineage` walking a list | state machine |
| `ResolutionLineageProofs` | theorems about it | proofs |
| `Authority` | policies, approvals, transitions | operators |
| `Verification` | adapters, results, recomputation | operators |
| `Scope`, `ActionPolicy` | containment, the gate | operators |
| `Rlp2` | building, signing and verifying one RLP-2 record | operators |
| `Rlp2Proofs` | lemmas about one record: what AUTHORIZED, RECOMPUTED and PERMIT imply | proofs |
| `Rlp2Lineage` | signers, co-signers, native systems, `verify_rlp2_lineage` and `verify_and_decide_action` | state machine |
| `Rlp2LineageProofs` | theorems about it | proofs |
| `ActionHeads` | `verify_rlp2_heads` and `verify_and_decide_action_heads`, composed with all of `Rlp2Lineage` | state machine |
| `ActionHeadsProofs` | theorems about it | proofs |
| `LineageContract` | what `verify_resolution_lineage` promises, without its loop | abstract specification |
| `ActionContract` | what the gate promises, without records and lineages | abstract specification |
| `JsonValues` | loaded JSON of any shape: texts, lists, objects | operators |
| `Bundle`, `Technocore`, `ReleaseAudit` | `verify_bundle`; requests and records; the audit of the published files | operators |
| `CommandLine` | the commands, several at once, on one directory, with crashes and failing writes | state machine |
| `CommandLineProofs` | theorems about what stays on disk | proofs |
| `CommandLineRunProofs` | theorems about what each command loads, computes and leaves behind | proofs |
| `MCResolutionLineage`, `MCRlp2Lineage`, `MCActionHeads`, `MCCommandLine` | small instances | model values |

`ActionHeads` extends `Rlp2Lineage`, which extends `Rlp2`, which extends the operator
modules; `CommandLine` extends `ReleaseAudit`, which extends `Bundle` and
`Technocore`. All of them rest on `Envelopes`.

**Data.** A record is a TLA+ record with the code's fields; a value that may be
`None` is the set of at most one value (`Optional`). Cryptography is taken to be
perfect, as the code takes it: an envelope carries `signed`, which is what a
verifier learns from its signature, and `hash_object(v)` is `v` behind a tag, so
equal digests mean equal values. Texts, uris, versions and the fields that may
have only one value are left out. Evidence is a set of ids; an adapter is
its source (all that `adapter_code_digest` sees), and what it answers is the
variable `native`. The `True`, `False` and `None` of an adapter are normalised as
`_normalize_state` does; any other answer refuses.

**Signers.** `SignResolution` and `SignRlp2` are the library's signing functions
with every argument from a finite set. Around them stand the other sources of
objects the verifier must cope with: `SignPayload` (the `sign` command signs any
payload, so nothing has derived its state), `RewriteRecord` (an edited copy with
its old signature), `CollectApprovals` (a record put together from the body of one
and the approvals of others, as a co-signer collects them, which may be the wrong
ones).

**The walk.** `StartLineage` hands the verifier any list of published records;
`CheckRecord` and `PassAncestor` are one turn of the loop that succeeds,
`RejectRecord` one that raises, `ReturnLineage` the end of the loop, `Decide` the
gate, `EndCall` the caller's next call. Records are published and `native` changes
between any two of these: between them the code calls adapters, which are the
caller's own programs. The adapters of one record are asked in one step.

**Several candidates.** `StartHeads` hands the verifier a list of lists. Each is walked
by the same steps as a single lineage, `NextCandidate` keeps the verdict and starts
the next walk with fresh loop variables, `LastCandidate` compares subjects and
targets, `DecideHeads` holds on a fork and else asks the gate about the first
verdict. `witnessed`, which is about one call, runs through all walks.

**Commands and files.** A path of `disk` holds nothing, a part of a file or a whole
one. A command is one process and moves in steps that others may come between: `ReadFile`
for each of its files in the order the code loads them, `Compute`, then
`CreateFile` (`O_CREAT | O_EXCL`: it refuses where something is) and `FillFile`, or
`FileFails`, which removes the file (`core.py:125-127`). `commit-policy` instead looks whether
its salt exists, then reads it or creates and fills it, and does not
remove a salt it could not fill (`core.py:308-316`). `Crash` ends a process between any
two steps and leaves what is on disk. `Post` is the outside: somebody posts a
finished request and saves what the service gives back, with the nonce as a text or a
number and without the signature. A salt of fewer than 32 bytes is a part; a whole
salt stands for its writer, as no two draw the same. A file that was there at the start may be anything: the
documents of the bundle scenarios are signed by the right keys and have a field
missing, too many or of another type, or the wrong signer, or an edit, with the later documents
made from them or not.

A command that refuses prints its error and exits with code 2: the step `failed`. An
exception that `main` does not catch (`cli.py:179`) is the step `raised`, and there are three
ways to it. `verify_bundle` ends in a `KeyError`, `TypeError` or the like where a payload is signed
but not of the expected shape (`Raises` in `Bundle`). `load_json` lets through what is not its
own (`core.py:91-97`): `UnicodeDecodeError` for bytes that are not UTF-8, `RecursionError` for what is nested
too deep, `ValueError` for a number of too many digits; a file of that kind is `Undecodable`,
and a part, which may end inside a character, ends a command either way (`LoadingEnds`). And the audit
script catches nothing, so each refusal of it is one (`Refusal`). The same exceptions of an embedded
record text, and arguments that are not UTF-8, are left out.

**History variables.** `honest` remembers which records the library signed with
keys that suffice, `witnessed` what adapters answered in the present call, `seen`
which content of which path a command has loaded or reported. No action reads them.

**Faulty variants.** Definitions introduced by "A fault" are not used by any
specification: each is a definition below it with a plausible bug, and
`PROJECT.json` ("mutants") pairs each property of a passing run with one that
makes TLC find it violated.

## 3. What the runs show

| Run | Properties | Bounds |
|---|---|---|
| `MCResolutionHistory` | `AcceptedIsOneHistory`, `HeadFixesHistory`, `HonestPairsVerify`, `TypeOK` | 3 records, lists up to 3, six drafts over 2 subjects and 2 targets |
| `MCResolutionChecks` | `AcceptedStatesAreEarned`, `HonestPairsVerify` | 1 record, all pairs of outcomes, six malformed check lists, every claimed state |
| `MCRlp2Authority` | `AuthorityIsEarned`, `PolicyChangesAreConsented`, `HeadFixesHistory` | 3 records, 2 principals, EXACT and THRESHOLD policies, changes both ways |
| `MCRlp2Bootstrap` | `VerifiedIsOneHistory`, `BootstrapIsExternal`, `HonestLineagesVerify` | 3 records, RLP-1 and RLP-2, EXACT and EXTERNAL policies, another subject, another target, a repeated key |
| `MCRlp2Gate` | `PermitIsJustified`, `GateKeepsContract`, `TypeOK` | 1 record, all kernel states, 4 effective scopes, 21 gates, one with a caller's own comparison of string sets |
| `MCActionHeads` | `ForksAreHeld`, `SupersededIsHeld`, `OneHeadOneVerdict`, `DecidedOnOneIdentity`, `GateKeepsContract`, `HeadsTypeOK` | 3 records, up to 2 candidates of up to 2; corrections, rivals that say the same or not, two targets, a quorum not met |
| `MCActionEvidence` | `EvidenceIsWitnessed`, `VerificationEnds`, `HeadsCallEnds` | 2 records, up to 2 candidates of up to 2, three native answers, verifiers with the adapter, another version, an empty registry or none |
| `MCCommandLine` | `SeenStays`, `CommitmentsOpen`, `PartsAreExplained`, `LayersAgree`, `PostedRecordsVerify`, `PassedBundlesStand`, `AuditedReleasesStand`, `CommandsEnd`, `TypeOK` | 309 scenarios of up to 4 commands, 1 of them killed |

Three records are enough for each rule to meet itself: every rule of the code
relates a record to the one before it, and the third record is the first whose
predecessor has a predecessor. Two principals are the fewest for which a quorum can be
met, missed, and met by counting one key twice. Two candidates suffice because all
comparisons of `verify_rlp2_heads` are pairwise, and lists of two because a prefix
beside its extension is the shortest case of a superseded head. The bounds are
`MaxObjects` (records ever published), `MaxLength` (of a list), `MaxLineages`
(candidates of a call), `MaxCommands` and `MaxCrashes`.

The scenarios of `MCCommandLine` are families: keys made twice and read while they are made;
three commitments that race for one salt, absent, present or half written by a command
killed earlier, and for two outputs; record requests
with every form of nonce, verified in two rooms; plain requests and envelopes
verified while they are made; a bundle verified while its last two documents are signed,
one of them twice; each document of a bundle wrong in every way listed in
`Variants`; and the release with each file replaced in turn, once by a summary with a field more. Three commands are
enough for a creator, a rival and a reader of one file; one crash is enough to
leave each kind of file half written, which later commands then meet.

Deadlock is checked in every run but `MCCommandLine`: the verifier can always be
called again, if only with the empty list, whereas commands end. `CommandsEnd` says
there what deadlock checking would.

**Refinements.** `GateKeepsContract` (in `MCRlp2Gate` and, for several candidates, in
`MCActionHeads`): `Rlp2Lineage` and `ActionHeads` implement `ActionContract` when records are seen only as the consents genuine approvals
give to bodies, and the gate as its last answer. People consent and never withdraw, a question
is answered in one step, PERMIT only on a conclusion that a quorum had consented to by then.
`LoopKeepsContract` (in `MCResolutionHistory`): `ResolutionLineage` implements
`LineageContract`: however long the loop runs, whatever is published meanwhile and
whatever was asked before, a call answers once, by its list alone.

**Findings.** Three runs check a statement of the documents that the code does not
meet; TLC shows the shortest way there.

- `MCResolutionThird`: `verify_resolution` verifies the predecessor with no
  predecessor of its own, so **no RLP-1 lineage of three or more records is ever
  accepted**, however honest (`resolution.py:231` against
  `docs/RESOLUTION_PROFILE.md:104`).
- `MCRlp2BootstrapTwice`: the bootstrap restriction looks one record back, so a
  second RLP-2 record under the same self-named policy is AUTHORIZED though no
  external anchor exists (`rlp2.py:106` against its docstring, 103-104).
- `MCRlp2Revised`: a lineage that followed its evidence from UNRESOLVED to VERIFIED
  is refused by every verifier with adapters, because they no longer say what the
  first record says (`verification.py:184` against `docs/RLP_2.md:39,144-150`).

The properties of the passing runs are stated with these in mind:
`HonestPairsVerify` is about at most two records, `BootstrapIsExternal` about the
direct successor and the one whose predecessor was not supplied (`rlp2.py:340-343`, which
`docs/RLP_2_HARDENING.md:51` keeps at UNRESOLVED), `HonestLineagesVerify` about complete lineages and a verifier
that recomputes nothing.

**What two of these runs say of the code as it is.** A retry after a crash does not succeed: half a
file keeps its path, and `O_EXCL` refuses it from then on, so `PartsAreExplained` states
when a half file can be there at all (`PartAtStart`: or it was there before), and that a
failed write (not a killed one) leaves none but a salt. `PostedRecordsVerify` is about each step that refuses a record at its path, while loading it or when
it is verified, and names the two cases in which an honest one is refused, both with a nonce that the service
gives back as a number: it was padded with zeros, which the number has lost (`core.py:412`), or it is
beyond 2^53-1, which `load_json` does not let in (`core.py:67-70`).

**One head, one verdict.** `OneHeadOneVerdict` compares whole verdicts, with `authority_state` as
the code computes it (it depends on whether and which predecessor was supplied, `rlp2.py:329-343`) and
`records` as the walk sets it (`rlp2.py:425`). The two candidates may carry different lengths of
history, `native` changes between their walks, and an EXTERNAL bootstrap may come with its RLP-1
predecessor or without; the verdicts differ in `records` and in nothing else.

**Fairness.** Only the liveness properties need it. `VerificationEnds` and `HeadsCallEnds`
assume `WF(Verifies)`, the steps of one started call: the loop is one thread of
Python that runs on once called; an adapter that never returns is outside this
assumption. `CommandsEnd` assumes `WF(Step(p))` for each command: nothing in a
command waits for another (creation fails at once where a file exists), so the
operating system's scheduling of processes is all that is asked. A killed command has ended.
Nothing is assumed of signers, native systems, callers or the one who posts.

## 4. What is proved

Every invariant, action property and refinement of a passing run is also a theorem: the run shows
it on a small instance, the theorem for every value of the constants, so for every number
of people, drafts, policies, records, candidates, commands and crashes, and for every length of
list. The theorems, by module:

| Module | Theorem: property |
|---|---|
| `ResolutionLineageProofs` | `TypeCorrect`: `TypeOK`; `AcceptsOneHistory`: `AcceptedIsOneHistory`; `HeadStandsForHistory`: `HeadFixesHistory`; `AcceptedEarned`: `AcceptedStatesAreEarned`; `HonestAccepted`: `HonestPairsVerify`; `LoopImplementsContract`: `LoopKeepsContract` |
| `Rlp2LineageProofs` | `TypeCorrect`: `TypeOK`; `VerifiesOneHistory`: `VerifiedIsOneHistory`; `AuthorityEarned`: `AuthorityIsEarned`; `PolicyChangesConsented`: `PolicyChangesAreConsented`; `BootstrapsExternally`: `BootstrapIsExternal`; `HeadFixes`: `HeadFixesHistory`; `EvidenceWitnessed`: `EvidenceIsWitnessed`; `PermitsAreJustified`: `PermitIsJustified`; `HonestVerify`: `HonestLineagesVerify`; `GateImplementsContract`: `GateKeepsContract` |
| `ActionHeadsProofs` | `HeadsTypeCorrect`: `HeadsTypeOK`; `ForksHeld`: `ForksAreHeld`; `SupersededHeld`: `SupersededIsHeld`; `OneHeadGivesOneVerdict`: `OneHeadOneVerdict`; `DecidesOnOneIdentity`: `DecidedOnOneIdentity`; `HeadsEvidenceWitnessed`: `EvidenceIsWitnessed`; `HeadsImplementContract`: `GateKeepsContract` |
| `CommandLineProofs` | `SeenStaysAlways`: `SeenStays`; `CommitmentsAlwaysOpen`: `CommitmentsOpen` |
| `CommandLineRunProofs` | `CommandsTypeCorrect`: `TypeOK`; `PartsAlwaysExplained`: `PartsAreExplained`; `LayersAlwaysAgree`: `LayersAgree`; `PostedRecordsAlwaysVerify`: `PostedRecordsVerify`; `PassedBundlesAlwaysStand`: `PassedBundlesStand`; `AuditedReleasesAlwaysStand`: `AuditedReleasesStand` |

**Assumptions.** The perfect cryptography that `Envelopes` writes down (that digests differ
where values do is a lemma, from the definition of `hash_object`); bounds that are naturals
(`BoundsAssumption` of either lineage module, `LineagesAssumption`, `CommandsAssumption`,
`SafeAssumption`); `ListsAssumption`: the keys that sign a record and the principals of a policy are finite
lists of keys, as JSON arrays are; `BodiesAssumption`: no message body is empty;
`ScenariosAssumption`: each path a command names is one of the directory, a command is
given as many files as its parser asks for, `technocore-record-request` loads its key twice, and a nonce
is a text with leading zeros or a number. Nothing is assumed of the drafts, the records,
the native answers, the callers' adapters, the policies or the files: malformed ones are
refused by definitions the theorems are about. TLC evaluates each assumption.

**RLP-1.** None of the safety properties is inductive: that a list is accepted says
nothing of how it was checked. `LoopInv` adds what the loop knows: the variables
are those of `TypeOK`, every record before `index` passed `verify_resolution` with
the record before it, an accepted list was walked to its end, a refused
list is empty or was refused for the record at `index`, which does not pass, and an
idle verifier holds nothing. Signing only adds records, so a list of published records stays one
(`SeqGrows`, `PublishKeepsLoop`). From `LoopInv`, `LoopPassedAll` says that an
accepted list passed whole; then `WholeIsOneHistory` and `DerivedIsEarned` are
facts about the operators. For the head: two lists that passed whole have length at most two
(`WholeIsShort`: the third-record finding, here as a lemma), and with the same head
the links force them equal (`HeadDeterminesList`). For honest lists: what the library
signs passes `verify_resolution` (`LibrarySignedIsDerived`, `HonestRecordsVerify`), so a
refused list of at most two honest records would have passed at `index`. The refinement
maps `ReturnLineage`, `RejectRecord` and the refusal of the empty list to `Verify`, for
which `LoopInv` says that the list passed whole or that its record at `index` does
not; a turn of the loop is a stutter, every signature a `Publish`, `EndCall` a `Forget`.

**RLP-2.** `WalkInv` plays the part of `LoopInv`, with one difference that the code forces: what
the walk knows of a record it has passed must not depend on `native`, which changes
behind its back. `Linked` is that knowledge, a check of the record against its predecessor with the stored
results; `RecomputedIsStored` says that a record that passes with adapters passes
without. History, authority, consent and bootstrap (`LinkedIsOneHistory`,
`StoredEarnsAuthority`, `ChangeIsConsented`, `WalkBootstraps` with `OrphanIsUnresolved`) are then facts
about linked lists. Three properties need more.

- `EvidenceIsWitnessed` needs `WitnessInv`: when a record was passed, each RECOMPUTED
  result was answered at that step, and `witnessed` keeps it for the rest of the call.
- `PermitIsJustified` needs `DecisionInv`, which remembers what the gate was asked and
  about which verdict; `PermitMeans` unfolds the policy.
- `HonestLineagesVerify` needs `HonestInv`: what the library signs with keys that
  suffice verifies behind any predecessor it names (`SignedVerifies`, over every branch of the
  builder), so a refusal at `index` would contradict the step that signed it
  (`HonestIsAccepted`).

`HeadFixesHistory` says that of two lists that verify and end in one record, the shorter is the end of
the longer, at any length: linked lists that agree at their heads agree all the way back
(`LinkedAgree`, `AgreeIsSuffix`). The refinement needs `PublishedInv` (a record stays well formed however it was assembled
or edited) and that consents are only ever added; `PermitIsWarranted` finds the quorum behind a
PERMIT among the consents given by then.

**Heads.** `HeadsInv` is `WalkInv`, `CandidatesInv` (each candidate already walked was linked
whole and its verdict is the one for its last record behind the record before it) and `HeadsDecisionInv` (a decision was
taken after the last walk, on these verdicts). `ForksAreHeld` follows
from it, and `OneHeadOneVerdict` with one step more: a verified record says the authority that was computed for
it, behind whichever predecessor it came, so records with one digest say one authority. That a superseded head is never permitted on does not: nothing the verifier compares excludes a
record that corrects itself through others. `RankInv` does: records have ranks in the naturals
that rise from a predecessor to its successor, because a record can only name
one that exists. It is kept by every way to publish (`PublishingStep`), and it makes
the last record of a lineage one that no record before it revises
(`RanksRise`, `LastIsNotRevised`).

**Commands.** `SeenStays` alone is not inductive: a command that fills or removes a file must
not touch one that somebody has seen. `StoreInv` adds the reason (`HeldOK`): a command
between creating and filling holds one path, that path is a part, which nobody can have
seen, and no two commands hold the same. It is preserved because creation is exclusive
(`CreateKeepsStore`), filling and removing touch only what is held (`FillKeepsStore`),
and all else leaves files alone and sees only whole ones (`AsideKeepsStore`); each
step of a command is one of the three, and `Post` writes only where nothing was.
`CommitInv` adds that at each step a `commit-policy` process holds
the policy, and then the policy and the salt, that both were seen on disk, and that what it
publishes is made of these two; as what was seen stays, both are still there.

`RunInv` says of every command that what it has loaded was seen at its paths, in order,
and that one that ended in an answer had loaded all and computed it from that. From it and `StoreInv`, two reads of one path load one content
(`OnceSeen`), which gives `LayersAgree`: both layers of a request are signed with the
key file, read twice. `PostedRecordsVerify` is about steps: a record the library made is loadable unless its nonce is
too large (`StoredLoads`) and verifies unless zeros were lost (`MadeRecordVerifies`), and only loading and
computing refuse (`RefusedByItself`). A passed bundle is fixed by its receipt, digest by digest (`ReceiptFixes`,
`PassedIsFixed`), and an audited release by the digests and equalities between its files:
`OneFileDiffers` goes through the files and names, for each, the other file that holds its digest.
`PartsInv` gives each part a command that answers for it (`Accounts`): one
filling it, one killed, or one whose salt could not be filled.

**What the proofs changed.** Three statements that TLC had accepted were false for larger
constants, and are now stated as they are true.

- PERMIT implied that the request lies within the original scope. It does when
  containment is transitive, which the built-in comparison of string sets is; but a caller's registry is
  asked first, so it may replace it (`scope.py:74-91`). `KeepsBuiltIn` says so, and the gate `OwnComparison`
  of `MCRlp2Gate` is such a caller.
- An audited release was to be fixed file by file. The audit does not read the fields of
  a summary beyond those it compares (`Unread`).
- A half-written file was to be the work of one of the commands. It may have been there when they
  started, from a command killed earlier (`PartAtStart`).

**Only model-checked.** The three liveness properties, `VerificationEnds`, `HeadsCallEnds` and
`CommandsEnd`: they rest on fairness and so on ENABLED, which the prover does
not handle. Induction over naturals and finite sets (ranks, lists that agree back to front) goes by least
elements and well-founded orders, as the library's induction theorems take an operator as parameter, which
the installed provers cannot instantiate. Liveness aside, nothing a passing run checks is left without a theorem. The three findings are
counterexamples and need none.

## 5. Not modelled

- The encodings (`core.py:40-60`, `135-195`): canonical JSON, base64url, base58 and
  did:key. Values stand for their encodings; what a decoder refuses is a refusal here. Of
  the JSON limits only the range of integers is kept, for nonces (`SafeNonce`).
- `__init__.py`, the schemas and `public/` have no behaviour; of `cli.py` the parsing of
  arguments and the wording of what is printed are left out.
- A scope adapter of the caller that answers neither TRUE, FALSE nor UNRESOLVED: the code raises
  (`scope.py:63`), here an adapter answers one of the three.
- RLP-2 bodies made by hand and signed with `sign`. `ResolutionLineage` has them for RLP-1
  (`SignPayload`); in `Rlp2Lineage` a body is built by the library, and then assembled with other approvals or
  edited, so its properties and theorems are about these.
- A file that lacks only its final newline, because a kill or an error at closing cut just there:
  it would load, here it is a part like any other.
- Labels of keys; rooms and texts that contain the separator of the signed message.
- The list of tracked file names that the release audit asks git for. The
  audit's checks are one condition: which one fails first is not told apart, and
  two refusals differ only in their exception.
- Files changed by hand while commands run. The code cannot see it: what it has loaded it does not load again.
- `verify_rlp2_heads` called alone returns a report without a decision; the model has
  the report only on the way to one.
- Adapters that raise or never return; a verifier interrupted in the middle of a
  walk (it has no effect to undo).
- Whether a list is complete. The code cannot know it: a prefix of a lineage
  verifies, and permits what its old head permits.
- That stored evidence is fresh when a verifier has no adapters: the verdict then
  says DECLARED, and the gate does not look at it.
- `original_scope` is not compared along a lineage by the code, and nothing is
  claimed of it here (the hazards at `rlp2.py:472` and `rlp2.py:158` have no property for
  the last two reasons; those at `rlp2.py:366`, `core.py:450` and `cli.py:179` say theirs).

## 6. Plan

Done: the RLP-1 loop, RLP-2 lineages, the gate, competing heads, and the commands with their
files; their contracts; a theorem for each invariant and refinement. Left, in this order:

1. A contract for the commands: a directory in which names are bound once and never change,
   shown to be implemented by `CommandLine` through `StoreInv`, in place of the longer part of
   its history variable.
2. Lemmas on `Authority` in the other direction, as properties: that more approvals never take
   authority away, and that THRESHOLD of all is ALL.
3. `Encoding`: base58 and base64url over short strings, canonical and injective, against
   a reference definition. What they compute is recursive, so TLC checks it and no theorem
   can state it.
