---------------------------- MODULE CommandLine ----------------------------
(***************************************************************************)
(* The commands of resolution-receipt (cli.py) and the artifact files they *)
(* read and write (load_json, write_json, create_key and                   *)
(* create_policy_commitment in core.py), with the audit script.            *)
(*                                                                         *)
(* Several commands run at once on one directory.  Each reads its files    *)
(* one after another, computes, creates its output exclusively and then    *)
(* fills it; it may be killed between any two steps, and filling a file    *)
(* may fail.  The files are otherwise touched by nobody; those that are    *)
(* there at the start hold anything their authors put there.               *)
(***************************************************************************)
EXTENDS ReleaseAudit, Sequences, Functions

CONSTANTS Scenarios,    \* what may be asked for: [tree, commands, posts], see Init
          MaxCommands,  \* bound: the most commands of a scenario
          MaxCrashes    \* bound: how many commands are killed

ASSUME CommandsAssumption == MaxCommands \in Nat /\ MaxCrashes \in Nat

VARIABLES disk,     \* path |-> None or Some [whole, content]
          commands, \* the commands given: [name, reads, out, ...]
          state,    \* of each command: step, loaded (contents read), output
          posts,    \* <<request path, record path, form>>: what is to be
                    \*   posted to the service and fetched again
          crashes,  \* how many commands were killed
          seen      \* history: <<path, content>> a command loaded or reported

vars == <<disk, commands, state, posts, crashes, seen>>

Whole(content) == [whole |-> TRUE, content |-> content]
Part == [whole |-> FALSE, content |-> Text("")]

(***************************************************************************)
(* A path holds nothing, a part of a file, or a whole one; every path a    *)
(* scenario speaks of is one of its tree; and a command reads as many      *)
(* files as it has arguments that name one, the one key of a record        *)
(* request twice.                                                          *)
(***************************************************************************)
FileOK(entry) ==
    \/ entry = None
    \/ \E file \in entry :
           entry = Some(file) /\ file \in {Part, Whole(file.content)}

CommandOK(command, paths) ==
    /\ command.reads \in Seq(paths)
    /\ command.out \subseteq paths
    /\ command.name = "commit-policy" =>
           command.salt \in paths /\ Len(command.reads) = 1
    /\ command.name = "technocore-record-request" =>
           /\ Len(command.reads) = 2 /\ command.reads[1] = command.reads[2]
           /\ IsNonce(command.nonce)
    /\ command.name = "verify-technocore-record" =>
           Len(command.reads) = 1 /\ command.out = None
    /\ command.name = "verify-bundle" => Len(command.reads) = 4
    /\ command.name = "audit" =>
           /\ Len(command.reads) = Len(command.names)
           /\ Range(command.names) = ReleaseFiles

ScenarioOK(scenario) ==
    /\ scenario.tree \in [DOMAIN scenario.tree -> Range(scenario.tree)]
    /\ \A path \in DOMAIN scenario.tree : FileOK(scenario.tree[path])
    /\ \A p \in DOMAIN scenario.commands :
           CommandOK(scenario.commands[p], DOMAIN scenario.tree)
    /\ \A post \in scenario.posts :
           {post.request, post.record} \subseteq DOMAIN scenario.tree

ASSUME ScenariosAssumption == \A scenario \in Scenarios : ScenarioOK(scenario)

Fresh == [step |-> "reading", loaded |-> <<>>, output |-> None]

Init ==
    \E scenario \in Scenarios :
        /\ disk = scenario.tree
        /\ commands = scenario.commands
        /\ posts = scenario.posts
        /\ state = [p \in DOMAIN scenario.commands |-> Fresh]
        /\ crashes = 0
        /\ seen = {}

-----------------------------------------------------------------------------
(***************************************************************************)
(* What a command computes from what it has loaded: None if it refuses,    *)
(* else Some output.  sign loads the payload, then the key; the salt comes *)
(* after the policy.  Arguments that make no request are refused before or *)
(* between the reads, here after them.  The label and the encoding of a    *)
(* key are left out.                                                       *)
(***************************************************************************)
Key(did) == [private_key |-> did]
IsKey(content) == DOMAIN content = {"private_key"}

policy_commitment(policy, salt) ==
    [commitment |-> [sha256 |-> [salt |-> salt, policy |-> policy]]]

BundleOf(loaded) ==
    [manifest |-> loaded[1], claim |-> loaded[2],
     verdict |-> loaded[3], receipt |-> loaded[4]]

ReleaseOf(command, loaded) ==
    [name \in Range(command.names) |->
        loaded[CHOOSE i \in DOMAIN loaded : command.names[i] = name]]

Returned(condition, value) == IF condition THEN Some(value) ELSE None

Computed(command, loaded) ==
    CASE command.name = "keygen" -> Some(Key(command.did))
      [] command.name = "commit-policy" ->
             Some(policy_commitment(loaded[1], loaded[2]))
      [] command.name = "sign" ->
             Returned(IsKey(loaded[2]),
                      sign_envelope(command.kind, loaded[1],
                                    loaded[2].private_key))
      [] command.name = "verify" ->
             Returned(/\ IsEnvelope(loaded[1])
                      /\ \A kind \in command.kind : loaded[1].kind = kind
                      /\ verify_envelope(loaded[1], loaded[1].kind),
                      hash_object(loaded[1]))
      [] command.name = "hash" -> Some(hash_object(loaded[1]))
      [] command.name = "technocore-request" ->
             Returned(/\ CanRequest(command.room, command.nonce, command.text)
                      /\ IsKey(loaded[1]),
                      technocore_request(command.room, command.nonce,
                          Text(command.text), loaded[1].private_key))
      [] command.name = "verify-technocore" ->
             Returned(verify_technocore_request(command.room, loaded[1]),
                      loaded[1])
      [] command.name = "technocore-record-request" ->
             Returned(/\ CanRequest(command.room, command.nonce, command.body)
                      /\ IsKey(loaded[1]) /\ IsKey(loaded[2]),
                      technocore_record_request(command.room, command.nonce,
                          command.body, loaded[1].private_key,
                          loaded[2].private_key))
      [] command.name = "verify-technocore-record" ->
             Returned(verify_technocore_record(command.room, loaded[1]),
                      loaded[1])
      [] command.name = "verify-bundle" ->
             Returned(verify_bundle(BundleOf(loaded)), Text("PASS"))
      [] command.name = "audit" ->
             Returned(Audited(ReleaseOf(command, loaded)), Text("PASS"))

(***************************************************************************)
(* A command that refuses says so and exits with code 2 ("failed"); any    *)
(* other exception than those main catches ends it with a traceback        *)
(* ("raised"), and so do all exceptions the audit script, which catches    *)
(* none.  Of the exceptions nobody expects this is the one in computing;   *)
(* for those in loading see LoadingEnds.                                   *)
(***************************************************************************)
Refusal(command) == IF command.name = "audit" THEN "raised" ELSE "failed"

Unexpected(command, loaded) ==
    command.name = "verify-bundle" /\ Raises(BundleOf(loaded))

-----------------------------------------------------------------------------
(***************************************************************************)
(* The steps of a command p.                                               *)
(***************************************************************************)
At(p, step) == p \in DOMAIN state /\ state[p].step = step

Goes(p, step) == state' = [state EXCEPT ![p].step = step]

(***************************************************************************)
(* A fault: the files are read in the wrong order.                         *)
(***************************************************************************)
NextReadBackwards(p) ==
    commands[p].reads[Len(commands[p].reads) - Len(state[p].loaded)]

NextRead(p) == commands[p].reads[Len(state[p].loaded) + 1]

(***************************************************************************)
(* load_json returns the content of a file that is whole, unless a number  *)
(* in it is out of range, or its bytes make no value at all: they are not  *)
(* UTF-8, nest too deeply or spell too long a number.                      *)
(***************************************************************************)
Undecodable == [bytes |-> "undecodable"]

Loadable(file) ==
    /\ file.whole
    /\ file.content # Undecodable
    /\ "nonce" \in DOMAIN file.content => SafeNonce(file.content.nonce)

(***************************************************************************)
(* How a command may end where it cannot load: main catches what load_json *)
(* raises itself, what opening a file raises, and JSONDecodeError, but not *)
(* UnicodeDecodeError, RecursionError or another ValueError.  A part of a  *)
(* file may end anywhere, also inside a character.                         *)
(***************************************************************************)
LoadingEnds(command, entry) ==
    CASE entry = Some(Whole(Undecodable)) -> {"raised"}
      [] entry = Some(Part)               -> {Refusal(command), "raised"}
      [] OTHER                            -> {Refusal(command)}

Loads(p, path, content) ==
    /\ state' = [state EXCEPT ![p].loaded = Append(@, content)]
    /\ seen' = seen \cup {<<path, content>>}

Reading(p) == At(p, "reading") /\ Len(state[p].loaded) < Len(commands[p].reads)

ReadFile(p) ==
    /\ Reading(p)
    /\ \E file \in disk[NextRead(p)] :
           Loadable(file) /\ Loads(p, NextRead(p), file.content)
    /\ UNCHANGED <<disk, commands, posts, crashes>>

CannotRead(p) ==
    /\ Reading(p)
    /\ ~ \E file \in disk[NextRead(p)] : Loadable(file)
    /\ \E step \in LoadingEnds(commands[p], disk[NextRead(p)]) : Goes(p, step)
    /\ UNCHANGED <<disk, commands, posts, crashes, seen>>

ReadAll(p) == At(p, "reading") /\ Len(state[p].loaded) = Len(commands[p].reads)

(***************************************************************************)
(* create_policy_commitment: is there a salt?                              *)
(***************************************************************************)
LookForSalt(p) ==
    /\ ReadAll(p)
    /\ commands[p].name = "commit-policy"
    /\ Goes(p, IF disk[commands[p].salt] = None THEN "creating salt"
               ELSE "reading salt")
    /\ UNCHANGED <<disk, commands, posts, crashes, seen>>

(***************************************************************************)
(* A fault: whatever bytes are there are the salt.                         *)
(***************************************************************************)
ReadAnySalt(p) ==
    /\ At(p, "reading salt")
    /\ \E file \in disk[commands[p].salt] :
           /\ seen' = seen \cup {<<commands[p].salt, file.content>>}
           /\ state' = [state EXCEPT ![p].step = "computing",
                                     ![p].loaded = Append(@, file.content)]
    /\ UNCHANGED <<disk, commands, posts, crashes>>

ReadSalt(p) ==
    /\ At(p, "reading salt")
    /\ IF \E file \in disk[commands[p].salt] : file.whole
       THEN \E file \in disk[commands[p].salt] :
                /\ seen' = seen \cup {<<commands[p].salt, file.content>>}
                /\ state' = [state EXCEPT ![p].step = "computing",
                                          ![p].loaded = Append(@, file.content)]
       ELSE Goes(p, "failed") /\ UNCHANGED seen
    /\ UNCHANGED <<disk, commands, posts, crashes>>

CreateSalt(p) ==
    /\ At(p, "creating salt")
    /\ IF disk[commands[p].salt] = None
       THEN /\ disk' = [disk EXCEPT ![commands[p].salt] = Some(Part)]
            /\ Goes(p, "filling salt")
       ELSE Goes(p, "failed") /\ UNCHANGED disk
    /\ UNCHANGED <<commands, posts, crashes, seen>>

(***************************************************************************)
(* os.urandom: no two commands draw the same salt.                         *)
(***************************************************************************)
FillSalt(p) ==
    /\ At(p, "filling salt")
    /\ LET salt == [salt |-> p]
       IN  /\ disk' = [disk EXCEPT ![commands[p].salt] = Some(Whole(salt))]
           /\ state' = [state EXCEPT ![p].step = "computing",
                                     ![p].loaded = Append(@, salt)]
           /\ seen' = seen \cup {<<commands[p].salt, salt>>}
    /\ UNCHANGED <<commands, posts, crashes>>

SaltFails(p) ==
    /\ At(p, "filling salt")
    /\ Goes(p, "failed")
    /\ UNCHANGED <<disk, commands, posts, crashes, seen>>

(***************************************************************************)
(* All is loaded: the command computes, and writes or reports.             *)
(***************************************************************************)
Ready(p) ==
    \/ ReadAll(p) /\ commands[p].name # "commit-policy"
    \/ At(p, "computing")

Compute(p) ==
    /\ Ready(p)
    /\ LET output == Computed(commands[p], state[p].loaded)
       IN  state' = [state EXCEPT
               ![p].output = output,
               ![p].step = IF Unexpected(commands[p], state[p].loaded) THEN "raised"
                           ELSE IF output = None THEN Refusal(commands[p])
                           ELSE IF commands[p].out = None THEN "done"
                           ELSE "creating"]
    /\ UNCHANGED <<disk, commands, posts, crashes, seen>>

(***************************************************************************)
(* write_json creates the file, which must not exist, and fills it; if     *)
(* that fails the file is removed.                                         *)
(***************************************************************************)
OutputPath(p) == CHOOSE path \in commands[p].out : TRUE

(***************************************************************************)
(* A fault: an existing file is overwritten.                               *)
(***************************************************************************)
OverwriteFile(p) ==
    /\ At(p, "creating")
    /\ disk' = [disk EXCEPT ![OutputPath(p)] = Some(Part)]
    /\ Goes(p, "filling")
    /\ UNCHANGED <<commands, posts, crashes, seen>>

(***************************************************************************)
(* A fault: the command waits for the existing file to go away.            *)
(***************************************************************************)
AwaitFile(p) ==
    /\ At(p, "creating")
    /\ disk[OutputPath(p)] = None
    /\ disk' = [disk EXCEPT ![OutputPath(p)] = Some(Part)]
    /\ Goes(p, "filling")
    /\ UNCHANGED <<commands, posts, crashes, seen>>

CreateFile(p) ==
    /\ At(p, "creating")
    /\ IF disk[OutputPath(p)] = None
       THEN /\ disk' = [disk EXCEPT ![OutputPath(p)] = Some(Part)]
            /\ Goes(p, "filling")
       ELSE Goes(p, "failed") /\ UNCHANGED disk
    /\ UNCHANGED <<commands, posts, crashes, seen>>

FillFile(p) ==
    /\ At(p, "filling")
    /\ \E content \in state[p].output :
           /\ disk' = [disk EXCEPT ![OutputPath(p)] = Some(Whole(content))]
           /\ seen' = seen \cup {<<OutputPath(p), content>>}
    /\ Goes(p, "done")
    /\ UNCHANGED <<commands, posts, crashes>>

(***************************************************************************)
(* A fault: the file that could not be filled is left behind.              *)
(***************************************************************************)
FileFailsInPlace(p) ==
    /\ At(p, "filling")
    /\ Goes(p, "failed")
    /\ UNCHANGED <<disk, commands, posts, crashes, seen>>

FileFails(p) ==
    /\ At(p, "filling")
    /\ disk' = [disk EXCEPT ![OutputPath(p)] = None]
    /\ Goes(p, "failed")
    /\ UNCHANGED <<commands, posts, crashes, seen>>

Step(p) ==
    \/ ReadFile(p)
    \/ CannotRead(p)
    \/ LookForSalt(p)
    \/ ReadSalt(p)
    \/ CreateSalt(p)
    \/ FillSalt(p)
    \/ SaltFails(p)
    \/ Compute(p)
    \/ CreateFile(p)
    \/ FillFile(p)
    \/ FileFails(p)

Ended(p) == state[p].step \in {"done", "failed", "raised", "killed"}

(***************************************************************************)
(* The process is killed, or interrupted from the keyboard, which          *)
(* write_json does not catch either.                                       *)
(***************************************************************************)
Crash(p) ==
    /\ p \in DOMAIN state
    /\ ~ Ended(p)
    /\ crashes < MaxCrashes
    /\ crashes' = crashes + 1
    /\ Goes(p, "killed")
    /\ UNCHANGED <<disk, commands, posts, seen>>

(***************************************************************************)
(* Somebody posts a finished request to the service and saves the record   *)
(* that it gives back.                                                     *)
(***************************************************************************)
Post ==
    /\ \E post \in posts :
           /\ disk[post.record] = None
           /\ \E file \in disk[post.request] :
                  /\ file.whole
                  /\ disk' = [disk EXCEPT ![post.record] =
                                 Some(Whole(Stored(file.content, post.form)))]
           /\ posts' = posts \ {post}
    /\ UNCHANGED <<commands, state, crashes, seen>>

Next ==
    \/ \E p \in 1 .. MaxCommands : Step(p) \/ Crash(p)
    \/ Post

(***************************************************************************)
(* A command is a sequential program nothing blocks: it goes on until it   *)
(* ends or is killed.                                                      *)
(***************************************************************************)
Spec == Init /\ [][Next]_vars

FairSpec == Spec /\ \A p \in 1 .. MaxCommands : WF_vars(Step(p))

-----------------------------------------------------------------------------
(***************************************************************************)
(* Type invariant: a command holds what it has loaded, in the order it     *)
(* loads its files, and every path is that of one of the files.            *)
(***************************************************************************)
Steps == {"reading", "reading salt", "creating salt", "filling salt",
          "computing", "creating", "filling", "done", "failed", "raised",
          "killed"}

TypeOK ==
    /\ \A path \in DOMAIN disk : \A file \in disk[path] : file.whole \in BOOLEAN
    /\ DOMAIN state = DOMAIN commands
    /\ crashes \in 0 .. MaxCrashes
    /\ \A p \in DOMAIN state :
           /\ state[p].step \in Steps
           /\ \A i \in DOMAIN state[p].loaded :
                  i <= Len(commands[p].reads) =>
                      <<commands[p].reads[i], state[p].loaded[i]>> \in seen

(***************************************************************************)
(* What a command loaded, or reported to have written, stays there: it is  *)
(* whole, and no later or concurrent command replaces or removes it,       *)
(* whichever of them is killed or fails.  All that a command concludes     *)
(* from several files, read one after another, rests on this.              *)
(***************************************************************************)
SeenStays == \A s \in seen : disk[s[1]] = Some(Whole(s[2]))

(***************************************************************************)
(* A published commitment can be opened: it is over the policy and the     *)
(* whole salt that are on disk, whatever raced with the command that made  *)
(* it, and however often it was tried before.                              *)
(***************************************************************************)
CommitmentsOpen ==
    \A p \in DOMAIN state :
        /\ commands[p].name = "commit-policy"
        /\ state[p].step = "done"
        => \E salt \in disk[commands[p].salt], policy \in disk[commands[p].reads[1]] :
               /\ salt.whole
               /\ state[p].output =
                      Some(policy_commitment(policy.content, salt.content))

(***************************************************************************)
(* Half a file is on disk only while a command is filling it, or where one *)
(* was killed, now or before the start; and half a salt also where filling *)
(* it failed.                                                              *)
(***************************************************************************)
PartAtStart(path) ==
    \E scenario \in Scenarios :
        /\ scenario.commands = commands
        /\ path \in DOMAIN scenario.tree
        /\ scenario.tree[path] = Some(Part)

PartExplained(path) ==
    \E p \in DOMAIN state :
        \/ path \in commands[p].out /\ state[p].step \in {"filling", "killed"}
        \/ /\ commands[p].name = "commit-policy"
           /\ path = commands[p].salt
           /\ state[p].step \in {"filling salt", "killed", "failed"}

PartsAreExplained ==
    \A path \in DOMAIN disk :
        (\E file \in disk[path] : ~ file.whole) =>
            PartExplained(path) \/ PartAtStart(path)

(***************************************************************************)
(* Both layers of a Technocore record request are signed by one DID,       *)
(* though the command reads the key file once for each.                    *)
(***************************************************************************)
LayersAgree ==
    \A p \in DOMAIN state :
        /\ commands[p].name = "technocore-record-request"
        /\ state[p].step = "done"
        => \A request \in state[p].output :
               request.text.rr1.signer = request.did

(***************************************************************************)
(* A record that was made with the library, posted and saved is refused    *)
(* only if the service gave its nonce back as a number, and the nonce was  *)
(* either padded with zeros, which the number has lost, or so large that   *)
(* load_json refuses the number.  No step of verify-technocore-record ends *)
(* it otherwise while such a record is at its path.                        *)
(***************************************************************************)
LostAsNumber(nonce) == nonce.zeros > 0 \/ nonce.value > MaxSafeInteger

RefusedNow(q) ==
    /\ commands[q].name = "verify-technocore-record"
    /\ ~ Ended(q)
    /\ state'[q].step \in {"failed", "raised"}

Made(p) ==
    /\ commands[p].name = "technocore-record-request"
    /\ state[p].step = "done"

RefusedOnlyAsNumber ==
    \A p, q \in DOMAIN state :
        Made(p) /\ RefusedNow(q) /\ commands[q].room = commands[p].room =>
            \A request \in state[p].output, form \in {"text", "number"} :
                disk[commands[q].reads[1]] = Some(Whole(Stored(request, form)))
                    => form = "number" /\ LostAsNumber(request.nonce)

PostedRecordsVerify == [][RefusedOnlyAsNumber]_vars

(***************************************************************************)
(* A bundle that verify-bundle passed stands.  The four files on disk are  *)
(* still that bundle; issuer, worker and verifier are three parties; and   *)
(* under this receipt none of the other three could be another document.   *)
(***************************************************************************)
Known ==
    UNION {UNION {{file.content : file \in scenario.tree[path]} :
                      path \in DOMAIN scenario.tree} : scenario \in Scenarios}

FixedByReceipt(bundle) ==
    \A name \in {"manifest", "claim", "verdict"}, other \in Known :
        other # bundle[name] => ~ verify_bundle([bundle EXCEPT ![name] = other])

OnDisk(p) ==
    \A i \in DOMAIN state[p].loaded :
        disk[commands[p].reads[i]] = Some(Whole(state[p].loaded[i]))

Concluded(name) ==
    {p \in DOMAIN state : commands[p].name = name /\ state[p].step = "done"}

PassedBundlesStand ==
    \A p \in Concluded("verify-bundle") :
        LET bundle == BundleOf(state[p].loaded)
        IN  /\ OnDisk(p)
            /\ bundle.receipt.signer \notin {bundle.claim.signer,
                                             bundle.verdict.signer}
            /\ bundle.claim.signer # bundle.verdict.signer
            /\ FixedByReceipt(bundle)

(***************************************************************************)
(* An audited release stands: its files on disk are still those audited,   *)
(* and no single one of them could be another, but for what no check       *)
(* reads: the nonce of the publication request, and what a summary says    *)
(* beyond the fields the audit compares.                                   *)
(***************************************************************************)
Unread(name, one, other) ==
    \/ /\ name = "publication"
       /\ [one EXCEPT !.nonce = 0, !.sig = 0] = [other EXCEPT !.nonce = 0, !.sig = 0]
    \/ /\ name \in {"summary", "v2_summary"}
       /\ \A field \in SummaryFields : get(one, field) = get(other, field)
       /\ name = "v2_summary" =>
              get(one, "release_attestation_hash")
                  = get(other, "release_attestation_hash")

AuditedReleasesStand ==
    \A p \in Concluded("audit") :
        LET release == ReleaseOf(commands[p], state[p].loaded)
        IN  /\ OnDisk(p)
            /\ \A name \in DOMAIN release, other \in Known :
                   /\ other # release[name]
                   /\ Audited([release EXCEPT ![name] = other])
                   => Unread(name, other, release[name])

(***************************************************************************)
(* Every command ends, whatever the others do and wherever they are        *)
(* killed.                                                                 *)
(***************************************************************************)
CommandsEnd ==
    \A p \in 1 .. MaxCommands : <>(p \in DOMAIN state => Ended(p))
=============================================================================
