------------------------ MODULE CommandLineRunProofs ------------------------
(***************************************************************************)
(* Proofs about what the commands conclude from the files they read one    *)
(* after another, and about the half-written files that killed commands    *)
(* leave behind.  Both rest on the files that were seen staying as they    *)
(* are (CommandLineProofs).                                                *)
(***************************************************************************)
EXTENDS CommandLineProofs

(***************************************************************************)
(* A command that makes no commitment loads what it is given in order,     *)
(* each file as it was seen on disk, and what it writes or reports is      *)
(* computed from all of them.                                              *)
(***************************************************************************)
AllLoaded(p) == Len(state[p].loaded) = Len(commands[p].reads)

RunOK(p) ==
    /\ Len(state[p].loaded) <= Len(commands[p].reads)
    /\ \A i \in 1 .. Len(state[p].loaded) : Saw(p, commands[p].reads[i], i)
    /\ state[p].step # "computing"
    /\ state[p].step \in {"creating", "filling", "done"} =>
           /\ AllLoaded(p)
           /\ state[p].output = Computed(commands[p], state[p].loaded)
           /\ state[p].output # None

RunInv ==
    /\ crashes \in 0 .. MaxCrashes
    /\ \A p \in DOMAIN state :
           /\ state[p].step \in Steps
           /\ commands[p].name # "commit-policy" => RunOK(p)

(***************************************************************************)
(* The path that p answers for if half a file is there.                    *)
(***************************************************************************)
Accounts(p) ==
    {path \in DOMAIN disk :
        \/ /\ state[p].step \in {"filling", "killed"}
           /\ commands[p].out # None
           /\ path = OutputPath(p)
        \/ /\ state[p].step \in {"filling salt", "killed", "failed"}
           /\ commands[p].name = "commit-policy"
           /\ path = commands[p].salt}

PartsInv ==
    \A path \in DOMAIN disk :
        disk[path] = Some(Part) =>
            PartAtStart(path) \/ \E p \in DOMAIN state : path \in Accounts(p)

-----------------------------------------------------------------------------
(***************************************************************************)
(* The command line's own steps.                                           *)
(***************************************************************************)
LEMMA InitRun == Init => RunInv
<1> SUFFICES ASSUME Init
             PROVE  RunInv
  OBVIOUS
<1>1. crashes \in 0 .. MaxCrashes
  BY CommandsAssumption DEF Init
<1>2. ASSUME NEW p \in DOMAIN state
      PROVE  state[p].step \in Steps /\ RunOK(p)
  <2>1. state[p] = Fresh
    BY DEF Init
  <2>2. state[p].step = "reading" /\ state[p].loaded = <<>>
    BY <2>1 DEF Fresh
  <2>3. StoreInv /\ p \in DOMAIN commands
    BY InitStore DEF StoreInv, StateOK
  <2>4. commands[p].reads \in Seq(DOMAIN disk)
    BY <2>3, CommandKnown DEF CommandOK
  <2>5. Len(commands[p].reads) \in Nat /\ Len(state[p].loaded) = 0
    BY <2>2, <2>4
  <2>6. 1 .. Len(state[p].loaded) = {}
    BY <2>5
  <2> QED
    BY <2>2, <2>5, <2>6 DEF RunOK, Steps
<1> QED
  BY <1>1, <1>2 DEF RunInv

LEMMA TurnKeepsRun ==
    ASSUME RunInv, NEW p \in DOMAIN state, NEW step \in Steps, NEW loaded,
           NEW output, Becomes(p, step, loaded, output), UNCHANGED commands,
           seen \subseteq seen', crashes' \in 0 .. MaxCrashes,
           commands[p].name # "commit-policy" => RunOK(p)'
    PROVE  RunInv'
<1> SUFFICES ASSUME NEW q \in DOMAIN state
             PROVE  /\ state'[q].step \in Steps
                    /\ commands[q].name # "commit-policy" => RunOK(q)'
  BY DEF RunInv, Becomes
<1>1. CASE q = p
  BY <1>1 DEF Becomes
<1>2. CASE q # p
  <2>1. state'[q] = state[q]
    BY <1>2 DEF Becomes
  <2>2. state'[q].step \in Steps
    BY <2>1 DEF RunInv
  <2>3. ASSUME commands[q].name # "commit-policy"
        PROVE  RunOK(q)'
    <3>1. RunOK(q)
      BY <2>3 DEF RunInv
    <3> QED
      BY <2>1, <3>1 DEF RunOK, Saw, AllLoaded
  <2> QED
    BY <2>2, <2>3
<1> QED
  BY <1>1, <1>2

(***************************************************************************)
(* A command that goes on without loading or computing anything.           *)
(***************************************************************************)
LEMMA GoesKeepsRun ==
    ASSUME StoreInv, RunInv, NEW p \in DOMAIN state,
           NEW step \in Steps, Goes(p, step), UNCHANGED commands,
           seen \subseteq seen', crashes' \in 0 .. MaxCrashes,
           commands[p].name # "commit-policy" =>
               \/ step \in {"failed", "raised", "killed"}
               \/ step \in {"filling", "done"}
                  /\ state[p].step \in {"creating", "filling"}
    PROVE  RunInv'
<1>1. Becomes(p, step, state[p].loaded, state[p].output)
  BY GoesTo
<1>2. ASSUME commands[p].name # "commit-policy"
      PROVE  RunOK(p)'
  <2>1. RunOK(p)
    BY <1>2 DEF RunInv
  <2>2. /\ state'[p].step = step
        /\ state'[p].loaded = state[p].loaded
        /\ state'[p].output = state[p].output
    BY <1>1 DEF Becomes
  <2> QED
    BY <1>2, <2>1, <2>2 DEF RunOK, Saw, AllLoaded
<1> QED
  BY <1>1, <1>2, TurnKeepsRun

LEMMA ReadKeepsRun ==
    ASSUME StoreInv, RunInv, NEW p, ReadFile(p)
    PROVE  RunInv'
<1>1. p \in DOMAIN state /\ state[p].step = "reading"
  BY DEF ReadFile, Reading, At
<1>2. PICK content : Loads(p, NextRead(p), content)
  BY DEF ReadFile
<1>3. UNCHANGED <<commands, crashes>> /\ seen \subseteq seen'
  BY <1>2 DEF ReadFile, Loads
<1>4. Becomes(p, "reading", Append(state[p].loaded, content), state[p].output)
  BY <1>1, <1>2, LoadsTo DEF Loads
<1>5. ASSUME commands[p].name # "commit-policy"
      PROVE  RunOK(p)'
  <2>1. RunOK(p)
    BY <1>1, <1>5 DEF RunInv
  <2>2. PICK S : state[p].loaded \in Seq(S)
    BY <1>1, CommandKnown
  <2>3. state[p].loaded \in Seq(S \cup {content}) /\ content \in S \cup {content}
    BY <2>2
  <2> DEFINE loaded == Append(state[p].loaded, content)
             n == Len(state[p].loaded)
  <2>4. /\ Len(loaded) = n + 1
        /\ \A i \in 1 .. n : loaded[i] = state[p].loaded[i]
        /\ loaded[n + 1] = content
        /\ n \in Nat
    BY <2>3, AppendProperties
  <2>5. commands[p].reads \in Seq(DOMAIN disk)
    BY <1>1, CommandKnown DEF CommandOK
  <2>6. n < Len(commands[p].reads) /\ Len(commands[p].reads) \in Nat
    BY <2>5 DEF ReadFile, Reading
  <2>7. <<commands[p].reads[n + 1], content>> \in seen'
    BY <1>2 DEF Loads, NextRead
  <2>8. \A i \in 1 .. n : <<commands[p].reads[i], state[p].loaded[i]>> \in seen'
    BY <1>3, <2>1 DEF RunOK, Saw
  <2>9. state'[p].loaded = loaded /\ state'[p].step = "reading"
    BY <1>4 DEF Becomes
  <2> HIDE DEF loaded, n
  <2>10. \A i \in 1 .. n + 1 : <<commands[p].reads[i], loaded[i]>> \in seen'
    <3> SUFFICES ASSUME NEW i \in 1 .. n + 1
                 PROVE  <<commands[p].reads[i], loaded[i]>> \in seen'
      OBVIOUS
    <3>1. CASE i = n + 1
      BY <2>4, <2>7, <3>1
    <3>2. CASE i # n + 1
      <4>1. i \in 1 .. n
        BY <2>4, <3>2
      <4>2. loaded[i] = state[p].loaded[i]
        BY <2>4, <4>1
      <4> QED
        BY <2>8, <4>1, <4>2 DEF n
    <3> QED
      BY <3>1, <3>2
  <2>11. Len(loaded) <= Len(commands[p].reads)
    BY <2>4, <2>6
  <2> QED
    BY <1>3, <2>4, <2>9, <2>10, <2>11 DEF RunOK, Saw
<1>6. crashes' \in 0 .. MaxCrashes /\ "reading" \in Steps
  BY <1>3 DEF RunInv, Steps
<1> QED
  BY <1>1, <1>3, <1>4, <1>5, <1>6, TurnKeepsRun

LEMMA ComputesTo ==
    ASSUME StoreInv, NEW p, Compute(p), NEW output, NEW step,
           output = Computed(commands[p], state[p].loaded),
           step = IF Unexpected(commands[p], state[p].loaded) THEN "raised"
                  ELSE IF output = None THEN Refusal(commands[p])
                  ELSE IF commands[p].out = None THEN "done"
                  ELSE "creating"
    PROVE  Becomes(p, step, state[p].loaded, output)
<1>1. p \in DOMAIN state
  BY DEF Compute, Ready, ReadAll, At
<1> DEFINE r == [state[p] EXCEPT !.output = output]
<1>2. state' = [state EXCEPT ![p].output = output, ![p].step = step]
  BY DEF Compute
<1>3. state' = [state EXCEPT ![p] = [r EXCEPT !.step = step]]
  BY <1>2
<1>4. r = [step |-> state[p].step, loaded |-> state[p].loaded, output |-> output]
  BY <1>1, CommandKnown, Written
<1> HIDE DEF r
<1>5. [r EXCEPT !.step = step] =
          [step |-> step, loaded |-> state[p].loaded, output |-> output]
  BY <1>4
<1>6. state' = [state EXCEPT ![p] = [step |-> step, loaded |-> state[p].loaded,
                                     output |-> output]]
  BY <1>3, <1>5, Zenon
<1>7. state = [q \in DOMAIN state |-> state[q]]
  BY DEF StoreInv, StateOK
<1> QED
  BY <1>1, <1>6, <1>7 DEF Becomes

LEMMA ComputeKeepsRun ==
    ASSUME StoreInv, RunInv, NEW p, Compute(p)
    PROVE  RunInv'
<1> DEFINE output == Computed(commands[p], state[p].loaded)
           raised == Unexpected(commands[p], state[p].loaded)
           step == IF raised THEN "raised"
                   ELSE IF output = None THEN Refusal(commands[p])
                   ELSE IF commands[p].out = None THEN "done"
                   ELSE "creating"
<1>1. /\ p \in DOMAIN state
      /\ UNCHANGED <<commands, seen, crashes>>
      /\ commands[p].name # "commit-policy" /\ RunOK(p) => AllLoaded(p)
  BY DEF Compute, Ready, ReadAll, At, RunOK, AllLoaded
<1>2. Becomes(p, step, state[p].loaded, output)
  BY ComputesTo
<1>3. output = Computed(commands[p], state[p].loaded)
  OBVIOUS
<1> HIDE DEF output, raised
<1>4. /\ step \in {"raised", "failed", "done", "creating"}
      /\ step \in {"done", "creating"} => output # None
  BY DEF Refusal
<1>5. step \in Steps
  BY <1>4 DEF Steps
<1> HIDE DEF step
<1>6. ASSUME commands[p].name # "commit-policy"
      PROVE  RunOK(p)'
  <2>1. RunOK(p) /\ AllLoaded(p)
    BY <1>1, <1>6 DEF RunInv
  <2>2. /\ state'[p].step = step
        /\ state'[p].loaded = state[p].loaded
        /\ state'[p].output = output
    BY <1>2 DEF Becomes
  <2> QED
    BY <1>1, <1>3, <1>4, <2>1, <2>2 DEF RunOK, Saw, AllLoaded
<1>7. crashes' \in 0 .. MaxCrashes
  BY <1>1 DEF RunInv
<1> QED
  BY <1>1, <1>2, <1>5, <1>6, <1>7, TurnKeepsRun

(***************************************************************************)
(* Only a command that makes a commitment has steps that load a salt.      *)
(***************************************************************************)
LEMMA SaltStepKeepsRun ==
    ASSUME StoreInv, RunInv, NEW p \in DOMAIN state,
           commands[p].name = "commit-policy", UNCHANGED <<commands, crashes>>,
           seen \subseteq seen',
           \/ \E step \in Steps : Goes(p, step)
           \/ \E loaded, output : Becomes(p, "computing", loaded, output)
    PROVE  RunInv'
<1>1. crashes' \in 0 .. MaxCrashes
  BY DEF RunInv
<1>2. CASE \E step \in Steps : Goes(p, step)
  BY <1>1, <1>2, GoesKeepsRun
<1>3. CASE \E loaded, output : Becomes(p, "computing", loaded, output)
  <2>1. "computing" \in Steps
    BY DEF Steps
  <2> QED
    BY <1>1, <1>3, <2>1, TurnKeepsRun
<1> QED
  BY <1>2, <1>3

LEMMA StepKeepsRun ==
    ASSUME StoreInv, RunInv, NEW p, Step(p)
    PROVE  RunInv'
<1>1. /\ p \in DOMAIN state
      /\ p \in DOMAIN commands
      /\ UNCHANGED <<commands, crashes>>
      /\ seen \subseteq seen'
  <2>1. p \in DOMAIN state
    BY DEF Step, At, ReadFile, CannotRead, LookForSalt, ReadSalt, CreateSalt,
           FillSalt, SaltFails, Compute, CreateFile, FillFile, FileFails,
           Reading, ReadAll, Ready
  <2>2. UNCHANGED <<commands, crashes>> /\ seen \subseteq seen'
    BY DEF Step, ReadFile, CannotRead, LookForSalt, ReadSalt, CreateSalt,
           FillSalt, SaltFails, Compute, CreateFile, FillFile, FileFails, Loads
  <2> QED
    BY <2>1, <2>2, CommandKnown
<1>2. crashes' \in 0 .. MaxCrashes
  BY <1>1 DEF RunInv
<1>3. StepOK(p)
  BY <1>1, CommandKnown
<1>4. {"failed", "raised", "killed", "filling", "done", "reading salt", "creating salt",
       "filling salt"} \subseteq Steps
  BY DEF Steps
<1>5. CASE ReadFile(p)
  BY <1>5, ReadKeepsRun
<1>6. CASE CannotRead(p)
  <2>1. Goes(p, "failed") \/ Goes(p, "raised")
    BY <1>6, LoadingEndsIn
  <2> QED
    BY <1>1, <1>2, <1>4, <2>1, GoesKeepsRun
<1>7. CASE LookForSalt(p)
  <2>1. /\ commands[p].name = "commit-policy"
        /\ \E step \in Steps : Goes(p, step)
    BY <1>4, <1>7 DEF LookForSalt
  <2> QED
    BY <1>1, <2>1, SaltStepKeepsRun
<1>8. CASE ReadSalt(p)
  <2>1. commands[p].name = "commit-policy"
    BY <1>3, <1>8 DEF ReadSalt, At, StepOK
  <2>2. \/ Goes(p, "failed")
        \/ \E file : Becomes(p, "computing", Append(state[p].loaded, file.content),
                             state[p].output)
    BY <1>1, <1>8, LoadsTo DEF ReadSalt
  <2> QED
    BY <1>1, <1>4, <2>1, <2>2, SaltStepKeepsRun
<1>9. CASE CreateSalt(p)
  <2>1. commands[p].name = "commit-policy"
    BY <1>3, <1>9 DEF CreateSalt, At, StepOK
  <2>2. Goes(p, "filling salt") \/ Goes(p, "failed")
    BY <1>9 DEF CreateSalt
  <2> QED
    BY <1>1, <1>4, <2>1, <2>2, SaltStepKeepsRun
<1>10. CASE FillSalt(p)
  <2>1. commands[p].name = "commit-policy"
    BY <1>3, <1>10 DEF FillSalt, At, StepOK
  <2>2. Becomes(p, "computing", Append(state[p].loaded, [salt |-> p]),
                state[p].output)
    BY <1>1, <1>10, LoadsTo DEF FillSalt
  <2> QED
    BY <1>1, <2>1, <2>2, SaltStepKeepsRun
<1>11. CASE SaltFails(p)
  <2>1. commands[p].name = "commit-policy" /\ Goes(p, "failed")
    BY <1>3, <1>11 DEF SaltFails, At, StepOK
  <2> QED
    BY <1>1, <1>4, <2>1, SaltStepKeepsRun
<1>12. CASE Compute(p)
  BY <1>12, ComputeKeepsRun
<1>13. CASE CreateFile(p)
  <2>1. /\ Goes(p, "filling") \/ Goes(p, "failed")
        /\ state[p].step = "creating"
    BY <1>13 DEF CreateFile, At
  <2>2. commands[p].out # None
    BY <1>3, <2>1 DEF StepOK
  <2> QED
    BY <1>1, <1>2, <1>4, <2>1, <2>2, GoesKeepsRun
<1>14. CASE FillFile(p)
  <2>1. Goes(p, "done") /\ state[p].step = "filling"
    BY <1>14 DEF FillFile, At
  <2> QED
    BY <1>1, <1>2, <1>4, <2>1, GoesKeepsRun
<1>15. CASE FileFails(p)
  <2>1. Goes(p, "failed") /\ state[p].step = "filling"
    BY <1>15 DEF FileFails, At
  <2>2. commands[p].out # None
    BY <1>3, <2>1 DEF StepOK
  <2> QED
    BY <1>1, <1>2, <1>4, <2>1, <2>2, GoesKeepsRun
<1> QED
  BY <1>5, <1>6, <1>7, <1>8, <1>9, <1>10, <1>11, <1>12, <1>13, <1>14, <1>15,
     Zenon DEF Step

LEMMA NextKeepsRun == StoreInv /\ RunInv /\ [Next]_vars => RunInv'
<1> SUFFICES ASSUME StoreInv, RunInv, [Next]_vars
             PROVE  RunInv'
  OBVIOUS
<1>1. ASSUME NEW p \in 1 .. MaxCommands, Step(p)
      PROVE  RunInv'
  BY <1>1, StepKeepsRun
<1>2. ASSUME NEW p \in 1 .. MaxCommands, Crash(p)
      PROVE  RunInv'
  <2>1. /\ p \in DOMAIN state
        /\ Goes(p, "killed")
        /\ UNCHANGED <<commands, seen>>
    BY <1>2 DEF Crash
  <2>2. crashes' \in 0 .. MaxCrashes
    BY <1>2, CommandsAssumption DEF Crash, RunInv
  <2>3. "killed" \in Steps
    BY DEF Steps
  <2> QED
    BY <2>1, <2>2, <2>3, GoesKeepsRun
<1>3. CASE Post \/ UNCHANGED vars
  <2>1. UNCHANGED <<commands, state, crashes, seen>>
    BY <1>3 DEF Post, vars
  <2> QED
    BY <2>1 DEF RunInv, RunOK, Saw, AllLoaded
<1> QED
  BY <1>1, <1>2, <1>3 DEF Next

-----------------------------------------------------------------------------
(***************************************************************************)
(* What follows for the commands that have ended.                          *)
(***************************************************************************)
LEMMA OnceSeen ==
    ASSUME StoreInv, NEW path, NEW content, <<path, content>> \in seen
    PROVE  path \in DOMAIN disk /\ disk[path] = Some(Whole(content))
BY DEF StoreInv, SeenStays

LEMMA WholeIsOne ==
    ASSUME NEW one, NEW other, Some(Whole(one)) = Some(Whole(other))
    PROVE  one = other
<1>1. Whole(one) = Whole(other)
  BY DEF Some
<1>2. Whole(one).content = one /\ Whole(other).content = other
  BY DEF Whole
<1> QED
  BY <1>1, <1>2

LEMMA LoadedIsOnDisk ==
    ASSUME StoreInv, RunInv, NEW p \in DOMAIN state,
           commands[p].name # "commit-policy"
    PROVE  OnDisk(p)
<1>1. RunOK(p)
  BY DEF RunInv
<1>2. PICK S : state[p].loaded \in Seq(S)
  BY CommandKnown
<1>3. DOMAIN state[p].loaded = 1 .. Len(state[p].loaded)
  BY <1>2
<1> SUFFICES ASSUME NEW i \in 1 .. Len(state[p].loaded)
             PROVE  disk[commands[p].reads[i]] = Some(Whole(state[p].loaded[i]))
  BY <1>3 DEF OnDisk
<1>4. <<commands[p].reads[i], state[p].loaded[i]>> \in seen
  BY <1>1 DEF RunOK, Saw
<1> QED
  BY <1>4, OnceSeen

LEMMA RunIsTyped == StoreInv /\ CommitInv /\ RunInv => TypeOK
<1> SUFFICES ASSUME StoreInv, CommitInv, RunInv
             PROVE  TypeOK
  OBVIOUS
<1>1. ASSUME NEW path \in DOMAIN disk, NEW file \in disk[path]
      PROVE  file.whole \in BOOLEAN
  <2>1. PICK f \in disk[path] : /\ disk[path] = Some(f)
                                /\ f \in {Part, Whole(f.content)}
    BY DEF StoreInv, DirectoryOK, FileOK, None
  <2>2. file = f
    BY <2>1 DEF Some
  <2>3. Part.whole = FALSE /\ Whole(f.content).whole = TRUE
    BY DEF Part, Whole
  <2> QED
    BY <2>1, <2>2, <2>3
<1>2. DOMAIN state = DOMAIN commands
  BY DEF StoreInv, StateOK
<1>3. ASSUME NEW p \in DOMAIN state, NEW i \in DOMAIN state[p].loaded,
             i <= Len(commands[p].reads)
      PROVE  <<commands[p].reads[i], state[p].loaded[i]>> \in seen
  <2>1. PICK S : state[p].loaded \in Seq(S)
    BY CommandKnown
  <2>2. i \in 1 .. Len(state[p].loaded)
    BY <2>1
  <2>3. CASE commands[p].name # "commit-policy"
    BY <2>2, <2>3 DEF RunInv, RunOK, Saw
  <2>4. CASE commands[p].name = "commit-policy"
    <3>1. Len(commands[p].reads) = 1
      BY <2>4, CommandKnown DEF CommandOK
    <3>2. i = 1 /\ state[p].loaded # <<>>
      BY <1>3, <2>1, <2>2, <3>1
    <3> QED
      BY <2>4, <3>2 DEF CommitInv, CommitOK, Saw
  <2> QED
    BY <2>3, <2>4
<1>4. /\ crashes \in 0 .. MaxCrashes
      /\ \A p \in DOMAIN state : state[p].step \in Steps
  BY DEF RunInv
<1> QED
  BY <1>1, <1>2, <1>3, <1>4 DEF TypeOK

LEMMA LayersDoAgree == StoreInv /\ RunInv => LayersAgree
<1> SUFFICES ASSUME StoreInv, RunInv, NEW p \in DOMAIN state,
                    commands[p].name = "technocore-record-request",
                    state[p].step = "done", NEW request \in state[p].output
             PROVE  request.text.rr1.signer = request.did
  BY DEF LayersAgree
<1> DEFINE one == state[p].loaded[1]
           two == state[p].loaded[2]
<1>1. RunOK(p) /\ Len(commands[p].reads) = 2
      /\ commands[p].reads[1] = commands[p].reads[2]
  BY CommandKnown DEF RunInv, CommandOK
<1>2. Len(state[p].loaded) = 2 /\ state[p].output = Computed(commands[p], state[p].loaded)
  BY <1>1 DEF RunOK, AllLoaded
<1>3. /\ <<commands[p].reads[1], one>> \in seen
      /\ <<commands[p].reads[2], two>> \in seen
  BY <1>1, <1>2 DEF RunOK, Saw
<1>4. one = two
  <2>1. /\ disk[commands[p].reads[1]] = Some(Whole(one))
        /\ disk[commands[p].reads[2]] = Some(Whole(two))
    BY <1>3, OnceSeen
  <2> HIDE DEF one, two
  <2> QED
    BY <1>1, <2>1, WholeIsOne, Zenon
<1>5. request = technocore_record_request(commands[p].room, commands[p].nonce,
                    commands[p].body, one.private_key, two.private_key)
  BY <1>2 DEF Computed, Returned, None, Some
<1> HIDE DEF one, two
<1>6. /\ request.did = two.private_key
      /\ request.text.rr1.signer = one.private_key
  BY <1>5 DEF technocore_record_request, technocore_request, RecordText,
              sign_envelope
<1> QED
  BY <1>4, <1>6

-----------------------------------------------------------------------------
(***************************************************************************)
(* Two references by digest to what must be one value.                     *)
(***************************************************************************)
LEMMA DigestsDiffer ==
    ASSUME NEW one, NEW other, hash_object(one) = hash_object(other)
    PROVE  one = other
<1>1. hash_object(one).sha256 = one /\ hash_object(other).sha256 = other
  BY DEF hash_object
<1> QED
  BY <1>1

LEMMA SomeIsOne ==
    ASSUME NEW one, NEW other, Some(one) = Some(other)
    PROVE  one = other
BY DEF Some

(***************************************************************************)
(* A receipt names the digests of the other three documents.               *)
(***************************************************************************)
LEMMA ReceiptFixes ==
    ASSUME NEW bundle, NEW new, ReferencesAll(bundle), ReferencesAll(new),
           new.receipt = bundle.receipt, NEW name \in {"manifest", "claim", "verdict"}
    PROVE  new[name] = bundle[name]
<1> DEFINE Hash(b) == [n \in {"manifest", "claim", "verdict"} |-> hash_object(b[n])]
<1>1. Some(Hash(bundle)) = Some(Hash(new))
  BY DEF ReferencesAll
<1>2. Hash(bundle) = Hash(new)
  <2> HIDE DEF Hash
  <2> QED
    BY <1>1, SomeIsOne
<1>3. Hash(bundle)[name] = hash_object(bundle[name])
  OBVIOUS
<1>4. Hash(new)[name] = hash_object(new[name])
  OBVIOUS
<1>5. hash_object(new[name]) = hash_object(bundle[name])
  <2> HIDE DEF Hash
  <2> QED
    BY <1>2, <1>3, <1>4
<1> QED
  BY <1>5, DigestsDiffer

LEMMA PassedIsFixed ==
    ASSUME NEW bundle, verify_bundle(bundle),
           DOMAIN bundle = {"manifest", "claim", "verdict", "receipt"}
    PROVE  FixedByReceipt(bundle)
<1> SUFFICES ASSUME NEW name \in {"manifest", "claim", "verdict"}, NEW other,
                    verify_bundle([bundle EXCEPT ![name] = other])
             PROVE  other = bundle[name]
  BY DEF FixedByReceipt
<1> DEFINE new == [bundle EXCEPT ![name] = other]
<1>1. new.receipt = bundle.receipt /\ new[name] = other
  OBVIOUS
<1>2. ReferencesAll(bundle) /\ ReferencesAll(new)
  BY DEF verify_bundle
<1> HIDE DEF new
<1>3. new[name] = bundle[name]
  BY <1>1, <1>2, ReceiptFixes
<1> QED
  BY <1>1, <1>3

(***************************************************************************)
(* What a command reports, it computed from all that it loaded.            *)
(***************************************************************************)
LEMMA ReportIsComputed ==
    ASSUME RunInv, NEW p \in DOMAIN state, state[p].step = "done",
           commands[p].name # "commit-policy", NEW condition, NEW value,
           Computed(commands[p], state[p].loaded) = Returned(condition, value)
    PROVE  condition /\ state[p].output = Some(value) /\ AllLoaded(p)
BY DEF RunInv, RunOK, Returned

LEMMA BundlesStand == StoreInv /\ RunInv => PassedBundlesStand
<1> SUFFICES ASSUME StoreInv, RunInv, NEW p \in DOMAIN state,
                    commands[p].name = "verify-bundle", state[p].step = "done"
             PROVE  LET bundle == BundleOf(state[p].loaded)
                    IN  /\ OnDisk(p)
                        /\ bundle.receipt.signer \notin {bundle.claim.signer,
                                                         bundle.verdict.signer}
                        /\ bundle.claim.signer # bundle.verdict.signer
                        /\ FixedByReceipt(bundle)
  BY DEF PassedBundlesStand, Concluded
<1> DEFINE bundle == BundleOf(state[p].loaded)
<1>1. Computed(commands[p], state[p].loaded) =
          Returned(verify_bundle(bundle), Text("PASS"))
  BY DEF Computed
<1>2. DOMAIN bundle = {"manifest", "claim", "verdict", "receipt"}
  BY DEF BundleOf
<1> HIDE DEF bundle
<1>3. verify_bundle(bundle)
  BY <1>1, ReportIsComputed
<1>4. /\ bundle.receipt.signer \notin {bundle.claim.signer, bundle.verdict.signer}
      /\ bundle.claim.signer # bundle.verdict.signer
  BY <1>3 DEF verify_bundle, Independent
<1>5. FixedByReceipt(bundle)
  BY <1>2, <1>3, PassedIsFixed
<1>6. OnDisk(p)
  BY LoadedIsOnDisk
<1> QED
  BY <1>4, <1>5, <1>6 DEF bundle

-----------------------------------------------------------------------------
(***************************************************************************)
(* A record that was made here and given back by the service: its nonce    *)
(* is the only thing that may have changed.                                *)
(***************************************************************************)
LEMMA StrOfNonce ==
    ASSUME NEW nonce, IsNonce(nonce), nonce.form = "text"
    PROVE  /\ str(nonce) = nonce
           /\ nonce.zeros = 0 => str(NumberNonce(nonce.value)) = nonce
<1>1. nonce = [form |-> "text", value |-> nonce.value, zeros |-> nonce.zeros]
  BY DEF IsNonce
<1>2. \A value, zeros :
          [[form |-> "text", value |-> value, zeros |-> zeros] EXCEPT !.form = "text"]
              = [form |-> "text", value |-> value, zeros |-> zeros]
  OBVIOUS
<1>3. \A value :
          [[form |-> "number", value |-> value, zeros |-> 0] EXCEPT !.form = "text"]
              = [form |-> "text", value |-> value, zeros |-> 0]
  OBVIOUS
<1> QED
  BY <1>1, <1>2, <1>3, Zenon DEF str, NumberNonce

LEMMA MadeRecordVerifies ==
    ASSUME NEW room, NEW nonce, IsNonce(nonce), NEW body,
           CanRequest(room, nonce, body), NEW did, NEW form \in {"text", "number"},
           form = "number" => nonce.zeros = 0
    PROVE  verify_technocore_record(room,
               Stored(technocore_record_request(room, nonce, body, did, did), form))
<1> DEFINE payload == [body |-> body, nonce |-> nonce, room |-> room]
           envelope == sign_envelope(TECHNOCORE_RECORD_KIND, payload, did)
           text == [rr1 |-> envelope]
           back == IF form = "number" THEN NumberNonce(nonce.value) ELSE nonce
           record == [from |-> did, text |-> text, nonce |-> back]
<1>1. Stored(technocore_record_request(room, nonce, body, did, did), form) = record
  BY DEF Stored, technocore_record_request, technocore_request, RecordText
<1>2. /\ envelope.payload = payload
      /\ envelope.signer = did
      /\ Verifies(envelope, TECHNOCORE_RECORD_KIND)
  BY DEF Verifies, IsEnvelope, verify_envelope, sign_envelope
<1>3. /\ DOMAIN payload = {"body", "nonce", "room"}
      /\ payload.room = room /\ payload.nonce = nonce /\ payload.body = body
  OBVIOUS
<1>4. _validate_technocore_coordinates(room, nonce) /\ body # ""
  BY BodiesAssumption DEF CanRequest
<1>5. str(back) = nonce
  BY <1>4, StrOfNonce DEF _validate_technocore_coordinates
<1> HIDE DEF back, payload, envelope
<1>6. "rr1" \in DOMAIN text /\ text.rr1 = envelope
  OBVIOUS
<1> HIDE DEF text
<1>7. Decodes(text)
  BY <1>2, <1>3, <1>4, <1>6, Zenon DEF Decodes
<1>8. /\ {"from", "nonce", "text"} \subseteq DOMAIN record
      /\ record.text = text /\ record.nonce = back /\ record.from = did
  OBVIOUS
<1> HIDE DEF record
<1>9. verify_technocore_record(room, record)
  BY <1>2, <1>3, <1>5, <1>6, <1>7, <1>8, Zenon
     DEF verify_technocore_record, SameNonce
<1> QED
  BY <1>1, <1>9

(***************************************************************************)
(* A request that the library made, and what is left of it when the        *)
(* service stored it.                                                      *)
(***************************************************************************)
LEMMA MadeRequest ==
    ASSUME StoreInv, RunInv, NEW p \in DOMAIN state, Made(p),
           NEW request \in state[p].output
    PROVE  \E nonce, body, did :
               /\ IsNonce(nonce)
               /\ CanRequest(commands[p].room, nonce, body)
               /\ request = technocore_record_request(commands[p].room, nonce,
                                                      body, did, did)
<1> DEFINE room == commands[p].room
           nonce == commands[p].nonce
           body == commands[p].body
           one == state[p].loaded[1].private_key
           two == state[p].loaded[2].private_key
           made == technocore_record_request(room, nonce, body, one, two)
           can == /\ CanRequest(room, nonce, body)
                  /\ IsKey(state[p].loaded[1]) /\ IsKey(state[p].loaded[2])
<1>1. IsNonce(nonce)
  BY CommandKnown DEF Made, CommandOK
<1>2. can /\ request = made
  <2>1. Computed(commands[p], state[p].loaded) = Returned(can, made)
    BY DEF Made, Computed
  <2> HIDE DEF can, made
  <2> QED
    BY <2>1, ReportIsComputed DEF Made, Some
<1>3. one = two
  <2>1. request.text.rr1.signer = request.did
    BY LayersDoAgree DEF LayersAgree, Made
  <2>2. request.did = two /\ request.text.rr1.signer = one
    BY <1>2 DEF technocore_record_request, technocore_request, RecordText,
                sign_envelope
  <2> QED
    BY <2>1, <2>2
<1>4. CanRequest(room, nonce, body) /\ request = made
  BY <1>2
<1> QED
  BY <1>1, <1>3, <1>4

LEMMA StoredLoads ==
    ASSUME NEW room, NEW nonce, IsNonce(nonce), NEW body,
           CanRequest(room, nonce, body), NEW did, NEW form,
           ~ (form = "number" /\ LostAsNumber(nonce))
    PROVE  Loadable(Whole(Stored(technocore_record_request(room, nonce, body,
                                                           did, did), form)))
<1> DEFINE record == Stored(technocore_record_request(room, nonce, body, did, did),
                            form)
<1>1. /\ DOMAIN record = {"from", "text", "nonce"}
      /\ record.nonce = IF form = "number" THEN NumberNonce(nonce.value) ELSE nonce
  BY DEF Stored, technocore_record_request, technocore_request
<1>2. SafeNonce(record.nonce)
  <2>1. CASE form # "number"
    BY <1>1, <2>1
       DEF SafeNonce, CanRequest, _validate_technocore_coordinates
  <2>2. CASE form = "number"
    <3>1. ~ nonce.value > MaxSafeInteger
      BY <2>2 DEF LostAsNumber
    <3>2. nonce.value <= MaxSafeInteger
      BY <3>1, SafeAssumption DEF IsNonce
    <3>3. record.nonce = NumberNonce(nonce.value)
      BY <1>1, <2>2
    <3> QED
      BY <3>2, <3>3 DEF SafeNonce, NumberNonce
  <2> QED
    BY <2>1, <2>2
<1>3. record # Undecodable
  <2>1. DOMAIN Undecodable = {"bytes"}
    BY DEF Undecodable
  <2> HIDE DEF record
  <2> QED
    BY <1>1, <2>1
<1> HIDE DEF record
<1>4. Whole(record).whole /\ Whole(record).content = record
  BY DEF Whole
<1> QED
  BY <1>2, <1>3, <1>4 DEF Loadable, record

(***************************************************************************)
(* A command takes a step of its own or stays where it is.                 *)
(***************************************************************************)
LEMMA OnlyOneGoes ==
    ASSUME StoreInv, NEW p, NEW q \in DOMAIN state, Step(p), q # p
    PROVE  state'[q] = state[q]
<1>1. state = [r \in DOMAIN state |-> state[r]]
  BY DEF StoreInv, StateOK
<1>2. \E new : state' = [state EXCEPT ![p] = new]
  <2>1. \A step : Goes(p, step) => \E new : state' = [state EXCEPT ![p] = new]
    BY DEF Goes
  <2>2. CASE ReadFile(p)
    BY <2>2 DEF ReadFile, Loads
  <2>3. CASE Compute(p)
    BY <2>3 DEF Compute
  <2>4. CASE ReadSalt(p) \/ FillSalt(p)
    BY <2>1, <2>4 DEF ReadSalt, FillSalt
  <2>5. CASE ~ (ReadFile(p) \/ Compute(p) \/ ReadSalt(p) \/ FillSalt(p))
    BY <2>1, <2>5 DEF Step, CannotRead, LookForSalt, CreateSalt, SaltFails,
                      CreateFile, FillFile, FileFails
  <2> QED
    BY <2>2, <2>3, <2>4, <2>5
<1> QED
  BY <1>1, <1>2

LEMMA RefusedByItself ==
    ASSUME StoreInv, NEW q \in DOMAIN state, RefusedNow(q), Next
    PROVE  CannotRead(q) \/ Compute(q)
<1>1. /\ state'[q].step # state[q].step
      /\ state'[q].step \in {"failed", "raised"}
      /\ commands[q].name # "commit-policy"
  BY DEF RefusedNow, Ended
<1>2. commands[q].out = None /\ StepOK(q)
  BY CommandKnown DEF CommandOK, RefusedNow
<1>3. state = [r \in DOMAIN state |-> state[r]]
  BY DEF StoreInv, StateOK
<1>4. ASSUME NEW p, Crash(p)
      PROVE  FALSE
  <2>1. state'[q].step \in {state[q].step, "killed"}
    BY <1>3, <1>4 DEF Crash, Goes
  <2> QED
    BY <1>1, <2>1
<1>5. PICK p : Step(p)
  BY <1>1, <1>4 DEF Next, Post
<1>6. Step(q)
  BY <1>1, <1>5, OnlyOneGoes
<1>7. ~ ReadFile(q)
  <2> SUFFICES ASSUME ReadFile(q)
               PROVE  FALSE
    OBVIOUS
  <2>1. PICK content : Loads(q, NextRead(q), content)
    BY DEF ReadFile
  <2>2. state'[q].step = state[q].step
    BY <2>1, LoadsTo DEF Loads, Becomes
  <2> QED
    BY <1>1, <2>2
<1>8. ~ (\/ LookForSalt(q) \/ ReadSalt(q) \/ CreateSalt(q) \/ FillSalt(q)
         \/ SaltFails(q) \/ CreateFile(q) \/ FillFile(q) \/ FileFails(q))
  BY <1>1, <1>2 DEF StepOK, LookForSalt, ReadSalt, CreateSalt, FillSalt,
                    SaltFails, CreateFile, FillFile, FileFails, At
<1> QED
  BY <1>6, <1>7, <1>8 DEF Step

LEMMA RecordsVerify ==
    StoreInv /\ RunInv /\ [Next]_vars => [RefusedOnlyAsNumber]_vars
<1> SUFFICES ASSUME StoreInv, RunInv, Next,
                    NEW p \in DOMAIN state, NEW q \in DOMAIN state,
                    Made(p), RefusedNow(q), commands[q].room = commands[p].room,
                    NEW request \in state[p].output, NEW form \in {"text", "number"},
                    disk[commands[q].reads[1]] = Some(Whole(Stored(request, form))),
                    ~ (form = "number" /\ LostAsNumber(request.nonce))
             PROVE  FALSE
  BY DEF RefusedOnlyAsNumber
<1> DEFINE record == Stored(request, form)
<1>1. /\ Loadable(Whole(record))
      /\ verify_technocore_record(commands[q].room, record)
  <2>1. PICK nonce, body, did :
            /\ IsNonce(nonce)
            /\ CanRequest(commands[p].room, nonce, body)
            /\ request = technocore_record_request(commands[p].room, nonce,
                                                   body, did, did)
    BY MadeRequest
  <2>2. request.nonce = nonce
    BY <2>1 DEF technocore_record_request, technocore_request
  <2>3. form = "number" => nonce.zeros = 0
    BY <2>1, <2>2 DEF LostAsNumber, IsNonce
  <2>4. Loadable(Whole(record))
    BY <2>1, <2>2, StoredLoads
  <2>5. verify_technocore_record(commands[p].room, record)
    BY <2>1, <2>3, MadeRecordVerifies
  <2> QED
    BY <2>4, <2>5
<1>2. /\ Len(commands[q].reads) = 1
      /\ commands[q].out = None
      /\ commands[q].name = "verify-technocore-record"
      /\ RunOK(q)
  BY CommandKnown DEF CommandOK, RunInv, RefusedNow
<1>3. PICK S : state[q].loaded \in Seq(S)
  BY CommandKnown
<1>4. disk[commands[q].reads[1]] = Some(Whole(record))
  OBVIOUS
<1> HIDE DEF record
<1>5. ASSUME CannotRead(q)
      PROVE  FALSE
  <2>1. Len(state[q].loaded) = 0
    BY <1>2, <1>3, <1>5 DEF CannotRead, Reading
  <2>2. NextRead(q) = commands[q].reads[1]
    BY <2>1 DEF NextRead
  <2>3. Whole(record) \in disk[NextRead(q)]
    BY <1>4, <2>2 DEF Some
  <2> QED
    BY <1>1, <1>5, <2>3 DEF CannotRead
<1>6. ASSUME Compute(q)
      PROVE  FALSE
  <2>1. Len(state[q].loaded) = 1
    BY <1>2, <1>6 DEF Compute, Ready, ReadAll, At, RunOK
  <2>2. disk[commands[q].reads[1]] = Some(Whole(state[q].loaded[1]))
    <3>1. 1 \in DOMAIN state[q].loaded
      BY <1>3, <2>1
    <3>2. OnDisk(q)
      BY <1>2, LoadedIsOnDisk
    <3> QED
      BY <3>1, <3>2 DEF OnDisk
  <2>3. state[q].loaded[1] = record
    BY <1>4, <2>2, WholeIsOne
  <2> DEFINE output == Computed(commands[q], state[q].loaded)
  <2>4. output = Some(record)
    BY <1>1, <1>2, <2>3 DEF Computed, Returned
  <2>5. output # None
    BY <2>4 DEF Some, None
  <2>6. ~ Unexpected(commands[q], state[q].loaded)
    BY <1>2 DEF Unexpected
  <2> DEFINE step == IF Unexpected(commands[q], state[q].loaded) THEN "raised"
                     ELSE IF output = None THEN Refusal(commands[q])
                     ELSE IF commands[q].out = None THEN "done"
                     ELSE "creating"
  <2>7. Becomes(q, step, state[q].loaded, output)
    BY <1>6, ComputesTo
  <2> HIDE DEF output
  <2>8. step = "done"
    BY <1>2, <2>5, <2>6
  <2> HIDE DEF step
  <2> QED
    BY <2>7, <2>8 DEF Becomes, RefusedNow
<1> QED
  BY <1>5, <1>6, RefusedByItself

-----------------------------------------------------------------------------
(***************************************************************************)
(* Half-written files.                                                     *)
(***************************************************************************)
LEMMA InitParts == Init => PartsInv
<1> SUFFICES ASSUME Init, NEW path \in DOMAIN disk, disk[path] = Some(Part)
             PROVE  PartAtStart(path)
  BY DEF PartsInv
<1>1. PICK scenario \in Scenarios :
          disk = scenario.tree /\ commands = scenario.commands
  BY DEF Init
<1> QED
  BY <1>1 DEF PartAtStart

(***************************************************************************)
(* A turn of p explains the part it creates, and goes on to explain those  *)
(* it explained, but for one it fills or removes.                          *)
(***************************************************************************)
LEMMA TurnKeepsParts ==
    ASSUME PartsInv, NEW p \in DOMAIN state, NEW step, Turn(p, step),
           UNCHANGED commands, DOMAIN disk' = DOMAIN disk,
           \A path \in DOMAIN disk :
               disk'[path] = Some(Part) =>
                   \/ path \in Accounts(p)'
                   \/ disk[path] = Some(Part) /\ path \notin Accounts(p)
    PROVE  PartsInv'
<1> SUFFICES ASSUME NEW path \in DOMAIN disk, disk'[path] = Some(Part),
                    ~ PartAtStart(path)
             PROVE  \E q \in DOMAIN state : path \in Accounts(q)'
  BY DEF PartsInv, PartAtStart, Turn
<1>1. CASE path \in Accounts(p)'
  BY <1>1
<1>2. CASE disk[path] = Some(Part) /\ path \notin Accounts(p)
  <2>1. PICK q \in DOMAIN state : path \in Accounts(q)
    BY <1>2 DEF PartsInv
  <2>2. q # p
    BY <1>2, <2>1
  <2>3. state'[q] = state[q]
    BY <2>2 DEF Turn
  <2>4. path \in Accounts(q)'
    BY <2>1, <2>3 DEF Accounts, OutputPath
  <2> QED
    BY <2>4
<1> QED
  BY <1>1, <1>2

(***************************************************************************)
(* Steps that leave the files alone.                                       *)
(***************************************************************************)
LEMMA AsideKeepsParts ==
    ASSUME PartsInv, NEW p \in DOMAIN state, NEW step, Turn(p, step),
           UNCHANGED <<commands, disk>>, StepOK(p),
           \/ state[p].step \notin {"filling", "filling salt", "killed", "failed"}
           \/ state[p].step = "filling salt" /\ step \in {"failed", "killed"}
           \/ state[p].step = "filling" /\ step = "killed"
    PROVE  PartsInv'
<1>1. ASSUME NEW path \in Accounts(p)
      PROVE  path \in Accounts(p)'
  <2>1. state'[p].step = step
    BY DEF Turn
  <2> QED
    BY <2>1 DEF Accounts, OutputPath, StepOK
<1> QED
  BY <1>1, TurnKeepsParts

LEMMA GoesAsideKeepsParts ==
    ASSUME StoreInv, PartsInv, NEW p \in DOMAIN state, NEW step, Goes(p, step),
           UNCHANGED <<commands, disk>>,
           \/ state[p].step \notin {"filling", "filling salt", "killed", "failed"}
           \/ state[p].step = "filling salt" /\ step \in {"failed", "killed"}
           \/ state[p].step = "filling" /\ step = "killed"
    PROVE  PartsInv'
<1>1. Becomes(p, step, state[p].loaded, state[p].output)
  BY GoesTo
<1>2. Turn(p, step)
  BY <1>1 DEF Becomes, Turn
<1> QED
  BY <1>2, CommandKnown, AsideKeepsParts

LEMMA LoadsAsideKeepsParts ==
    ASSUME PartsInv, StoreInv, NEW p \in DOMAIN state, NEW step, NEW loaded,
           NEW output, Becomes(p, step, loaded, output),
           UNCHANGED <<commands, disk>>,
           state[p].step \notin {"filling", "filling salt", "killed", "failed"}
    PROVE  PartsInv'
<1>1. Turn(p, step)
  BY DEF Becomes, Turn
<1> QED
  BY <1>1, CommandKnown, AsideKeepsParts

(***************************************************************************)
(* Steps that write to the one path p answers for.                         *)
(***************************************************************************)
LEMMA DiskAfter ==
    ASSUME StoreInv, NEW path \in DOMAIN disk, NEW entry,
           disk' = [disk EXCEPT ![path] = entry]
    PROVE  /\ DOMAIN disk' = DOMAIN disk
           /\ disk'[path] = entry
           /\ \A other \in DOMAIN disk \ {path} : disk'[other] = disk[other]
BY DEF StoreInv, DirectoryOK

LEMMA CreateKeepsParts ==
    ASSUME StoreInv, PartsInv, NEW p \in DOMAIN state, NEW step,
           NEW path \in DOMAIN disk, disk' = [disk EXCEPT ![path] = Some(Part)],
           Goes(p, step), UNCHANGED commands,
           state[p].step \in {"creating", "creating salt"},
           \/ /\ step = "filling"
              /\ commands[p].out # None /\ path = OutputPath(p)
           \/ /\ step = "filling salt"
              /\ commands[p].name = "commit-policy" /\ path = commands[p].salt
    PROVE  PartsInv'
<1>1. Turn(p, step)
  BY GoesTo DEF Becomes, Turn
<1>2. DOMAIN disk' = DOMAIN disk
  BY DiskAfter
<1>3. path \in Accounts(p)'
  BY <1>1, <1>2 DEF Turn, Accounts, OutputPath
<1>4. Accounts(p) = {}
  BY DEF Accounts
<1>5. \A other \in DOMAIN disk :
          disk'[other] = Some(Part) => other = path \/ disk[other] = Some(Part)
  BY DiskAfter
<1> QED
  BY <1>1, <1>2, <1>3, <1>4, <1>5, TurnKeepsParts

LEMMA FillKeepsParts ==
    ASSUME StoreInv, PartsInv, NEW p \in DOMAIN state, NEW step, Turn(p, step),
           NEW path \in DOMAIN disk, NEW entry, entry # Some(Part),
           disk' = [disk EXCEPT ![path] = entry],
           UNCHANGED commands,
           \/ state[p].step = "filling" /\ path = OutputPath(p)
           \/ state[p].step = "filling salt" /\ path = commands[p].salt
    PROVE  PartsInv'
<1>1. Accounts(p) \subseteq {path}
  BY DEF Accounts
<1>2. /\ DOMAIN disk' = DOMAIN disk
      /\ disk'[path] # Some(Part)
      /\ \A other \in DOMAIN disk \ {path} : disk'[other] = disk[other]
  BY DiskAfter
<1> QED
  BY <1>1, <1>2, TurnKeepsParts

LEMMA SaltKeepsParts ==
    ASSUME StoreInv, PartsInv, NEW p, FillSalt(p)
    PROVE  PartsInv'
<1> DEFINE salt == [salt |-> p]
<1>1. /\ p \in DOMAIN state
      /\ state[p].step = "filling salt"
      /\ UNCHANGED commands
      /\ disk' = [disk EXCEPT ![commands[p].salt] = Some(Whole(salt))]
  BY DEF FillSalt, At
<1>2. commands[p].salt \in DOMAIN disk
  BY <1>1, CommandKnown DEF StepOK, CommandOK
<1>3. Becomes(p, "computing", Append(state[p].loaded, salt), state[p].output)
  BY <1>1, LoadsTo DEF FillSalt
<1> HIDE DEF salt
<1>4. Turn(p, "computing")
  BY <1>3 DEF Becomes, Turn
<1> QED
  BY <1>1, <1>2, <1>4, WholeIsNotPart, FillKeepsParts

LEMMA FileKeepsParts ==
    ASSUME StoreInv, PartsInv, NEW p, FillFile(p) \/ FileFails(p)
    PROVE  PartsInv'
<1>1. /\ p \in DOMAIN state
      /\ state[p].step = "filling"
      /\ UNCHANGED commands
      /\ \E step : Goes(p, step)
      /\ \E entry : /\ entry # Some(Part)
                    /\ disk' = [disk EXCEPT ![OutputPath(p)] = entry]
  <2>1. None # Some(Part)
    BY DEF None, Some
  <2> QED
    BY <2>1, WholeIsNotPart DEF FillFile, FileFails, At
<1>2. OutputPath(p) \in DOMAIN disk
  BY <1>1, CommandKnown, OutputIsGiven DEF StepOK
<1>3. PICK step : Goes(p, step)
  BY <1>1
<1>4. Turn(p, step)
  BY <1>1, <1>3, GoesTo DEF Becomes, Turn
<1> QED
  BY <1>1, <1>2, <1>4, FillKeepsParts

LEMMA StepKeepsParts ==
    ASSUME StoreInv, PartsInv, NEW p, Step(p)
    PROVE  PartsInv'
<1>1. CASE ReadFile(p)
  <2>1. PICK content : Loads(p, NextRead(p), content)
    BY <1>1 DEF ReadFile
  <2>2. /\ p \in DOMAIN state
        /\ state[p].step = "reading"
        /\ UNCHANGED <<commands, disk>>
    BY <1>1 DEF ReadFile, Reading, At
  <2>3. Becomes(p, "reading", Append(state[p].loaded, content), state[p].output)
    BY <2>1, <2>2, LoadsTo DEF Loads
  <2> QED
    BY <2>2, <2>3, LoadsAsideKeepsParts
<1>2. CASE CannotRead(p)
  BY <1>2, LoadingEndsIn, GoesAsideKeepsParts
<1>3. CASE LookForSalt(p)
  BY <1>3, GoesAsideKeepsParts DEF LookForSalt, ReadAll, At
<1>4. CASE ReadSalt(p)
  <2>1. /\ p \in DOMAIN state
        /\ state[p].step = "reading salt"
        /\ UNCHANGED <<commands, disk>>
    BY <1>4 DEF ReadSalt, At
  <2>2. \/ Goes(p, "failed")
        \/ \E file : Becomes(p, "computing", Append(state[p].loaded, file.content),
                             state[p].output)
    BY <1>4, <2>1, LoadsTo DEF ReadSalt
  <2> QED
    BY <2>1, <2>2, GoesAsideKeepsParts, LoadsAsideKeepsParts
<1>5. CASE CreateSalt(p)
  <2>1. /\ p \in DOMAIN state
        /\ state[p].step = "creating salt"
        /\ UNCHANGED commands
        /\ \/ /\ disk' = [disk EXCEPT ![commands[p].salt] = Some(Part)]
              /\ Goes(p, "filling salt")
           \/ Goes(p, "failed") /\ UNCHANGED disk
    BY <1>5 DEF CreateSalt, At
  <2>2. commands[p].name = "commit-policy" /\ commands[p].salt \in DOMAIN disk
    BY <2>1, CommandKnown DEF StepOK, CommandOK
  <2> QED
    BY <2>1, <2>2, CreateKeepsParts, GoesAsideKeepsParts
<1>6. CASE FillSalt(p)
  BY <1>6, SaltKeepsParts
<1>7. CASE SaltFails(p)
  BY <1>7, GoesAsideKeepsParts DEF SaltFails, At
<1>8. CASE Compute(p)
  <2>1. /\ p \in DOMAIN state
        /\ state[p].step \in {"reading", "computing"}
        /\ UNCHANGED <<commands, disk>>
    BY <1>8 DEF Compute, Ready, ReadAll, At
  <2>2. \E step, output : Becomes(p, step, state[p].loaded, output)
    BY <1>8, ComputesTo
  <2> QED
    BY <2>1, <2>2, LoadsAsideKeepsParts
<1>9. CASE CreateFile(p)
  <2>1. /\ p \in DOMAIN state
        /\ state[p].step = "creating"
        /\ UNCHANGED commands
        /\ \/ /\ disk' = [disk EXCEPT ![OutputPath(p)] = Some(Part)]
              /\ Goes(p, "filling")
           \/ Goes(p, "failed") /\ UNCHANGED disk
    BY <1>9 DEF CreateFile, At
  <2>2. commands[p].out # None /\ OutputPath(p) \in DOMAIN disk
    BY <2>1, CommandKnown, OutputIsGiven DEF StepOK
  <2> QED
    BY <2>1, <2>2, CreateKeepsParts, GoesAsideKeepsParts
<1>10. CASE FillFile(p) \/ FileFails(p)
  BY <1>10, FileKeepsParts
<1> QED
  BY <1>1, <1>2, <1>3, <1>4, <1>5, <1>6, <1>7, <1>8, <1>9, <1>10, Zenon DEF Step

LEMMA PostKeepsParts ==
    ASSUME StoreInv, PartsInv, Post
    PROVE  PartsInv'
<1>1. PICK post \in posts :
          \E file \in disk[post.request] :
              disk' = [disk EXCEPT ![post.record] =
                          Some(Whole(Stored(file.content, post.form)))]
  BY DEF Post
<1> DEFINE path == post.record
<1>2. PICK content : disk' = [disk EXCEPT ![path] = Some(Whole(content))]
  BY <1>1
<1>3. path \in DOMAIN disk
  BY DEF StoreInv, DirectoryOK
<1> HIDE DEF path
<1>4. /\ DOMAIN disk' = DOMAIN disk
      /\ disk'[path] # Some(Part)
      /\ \A other \in DOMAIN disk \ {path} : disk'[other] = disk[other]
  BY <1>2, <1>3, WholeIsNotPart, DiskAfter
<1>5. UNCHANGED <<commands, state>>
  BY DEF Post
<1>6. \A q \in DOMAIN state : Accounts(q)' = Accounts(q)
  BY <1>4, <1>5 DEF Accounts, OutputPath
<1> QED
  BY <1>4, <1>5, <1>6 DEF PartsInv, PartAtStart

LEMMA NextKeepsParts == StoreInv /\ PartsInv /\ [Next]_vars => PartsInv'
<1> SUFFICES ASSUME StoreInv, PartsInv, [Next]_vars
             PROVE  PartsInv'
  OBVIOUS
<1>1. ASSUME NEW p \in 1 .. MaxCommands, Step(p)
      PROVE  PartsInv'
  BY <1>1, StepKeepsParts
<1>2. ASSUME NEW p \in 1 .. MaxCommands, Crash(p)
      PROVE  PartsInv'
  BY <1>2, GoesAsideKeepsParts DEF Crash, Ended
<1>3. CASE Post
  BY <1>3, PostKeepsParts
<1>4. CASE UNCHANGED vars
  <2>1. UNCHANGED <<disk, commands, state>>
    BY <1>4 DEF vars
  <2>2. \A q : Accounts(q)' = Accounts(q)
    BY <2>1 DEF Accounts, OutputPath
  <2> QED
    BY <2>1, <2>2 DEF PartsInv, PartAtStart
<1> QED
  BY <1>1, <1>2, <1>3, <1>4 DEF Next

LEMMA PartsHaveCauses == StoreInv /\ PartsInv => PartsAreExplained
<1> SUFFICES ASSUME StoreInv, PartsInv, NEW path \in DOMAIN disk,
                    NEW file \in disk[path], ~ file.whole, ~ PartAtStart(path)
             PROVE  PartExplained(path)
  BY DEF PartsAreExplained
<1>1. disk[path] = Some(Part)
  <2>1. PICK f \in disk[path] : /\ disk[path] = Some(f)
                                /\ f \in {Part, Whole(f.content)}
    BY DEF StoreInv, DirectoryOK, FileOK, None
  <2>2. file = f
    BY <2>1 DEF Some
  <2>3. Whole(f.content).whole = TRUE
    BY DEF Whole
  <2>4. f = Part
    BY <2>1, <2>2, <2>3
  <2> QED
    BY <2>1, <2>4
<1>2. PICK p \in DOMAIN state : path \in Accounts(p)
  BY <1>1 DEF PartsInv
<1>3. commands[p].out # None => OutputPath(p) \in commands[p].out
  BY DEF OutputPath, None
<1> QED
  BY <1>2, <1>3 DEF Accounts, PartExplained

-----------------------------------------------------------------------------
(***************************************************************************)
(* The audit.  Two audited releases that differ in one file: most files    *)
(* are fixed by another one that holds their digest, or the file itself.   *)
(***************************************************************************)
Differ(one, other, name) ==
    \A n \in ReleaseFiles \ {name} : other[n] = one[n]

LEMMA BundleNames ==
    ASSUME NEW release
    PROVE  /\ First(release).manifest = release.manifest
           /\ First(release).claim = release.claim
           /\ First(release).verdict = release.verdict
           /\ First(release).receipt = release.receipt
           /\ Second(release).manifest = release.v2_manifest
           /\ Second(release).claim = release.v2_claim
           /\ Second(release).verdict = release.v2_verdict
           /\ Second(release).receipt = release.v2_receipt
BY DEF First, Second

LEMMA DocumentsFixed ==
    ASSUME NEW one, NEW other, Audited(one), Audited(other)
    PROVE  /\ one.receipt = other.receipt =>
                  /\ one.manifest = other.manifest
                  /\ one.claim = other.claim
                  /\ one.verdict = other.verdict
           /\ one.v2_receipt = other.v2_receipt =>
                  /\ one.v2_manifest = other.v2_manifest
                  /\ one.v2_claim = other.v2_claim
                  /\ one.v2_verdict = other.v2_verdict
<1> DEFINE a == First(one)
           b == First(other)
           c == Second(one)
           d == Second(other)
<1>1. /\ ReferencesAll(a) /\ ReferencesAll(b)
      /\ ReferencesAll(c) /\ ReferencesAll(d)
  BY DEF Audited, FirstAudited, SecondAudited, verify_bundle
<1>2. /\ a.manifest = one.manifest /\ a.claim = one.claim
      /\ a.verdict = one.verdict /\ a.receipt = one.receipt
      /\ b.manifest = other.manifest /\ b.claim = other.claim
      /\ b.verdict = other.verdict /\ b.receipt = other.receipt
  BY BundleNames
<1>3. /\ c.manifest = one.v2_manifest /\ c.claim = one.v2_claim
      /\ c.verdict = one.v2_verdict /\ c.receipt = one.v2_receipt
      /\ d.manifest = other.v2_manifest /\ d.claim = other.v2_claim
      /\ d.verdict = other.v2_verdict /\ d.receipt = other.v2_receipt
  BY BundleNames
<1> HIDE DEF a, b, c, d
<1>4. ASSUME one.receipt = other.receipt
      PROVE  \A name \in {"manifest", "claim", "verdict"} : a[name] = b[name]
  BY <1>1, <1>2, <1>4, ReceiptFixes
<1>5. ASSUME one.v2_receipt = other.v2_receipt
      PROVE  \A name \in {"manifest", "claim", "verdict"} : c[name] = d[name]
  BY <1>1, <1>3, <1>5, ReceiptFixes
<1> QED
  BY <1>2, <1>3, <1>4, <1>5

LEMMA SameDigest ==
    ASSUME NEW got, NEW one, NEW other,
           got = Some(hash_object(one)), got = Some(hash_object(other))
    PROVE  one = other
BY SomeIsOne, DigestsDiffer

(***************************************************************************)
(* The receipts are in the attestations, the attestations in the           *)
(* publication and in the second summary.                                  *)
(***************************************************************************)
LEMMA AttestedFixed ==
    ASSUME NEW one, NEW other, Audited(one), Audited(other)
    PROVE  /\ one.attestation = other.attestation => one.receipt = other.receipt
           /\ one.v2_attestation = other.v2_attestation =>
                  one.v2_receipt = other.v2_receipt
           /\ one.publication = other.publication =>
                  one.attestation = other.attestation
           /\ one.v2_summary = other.v2_summary =>
                  one.v2_attestation = other.v2_attestation
<1> DEFINE Reference(attestation) == get(attestation.payload, "receipt_hash")
<1>1. ASSUME NEW release \in {one, other}
      PROVE  /\ Reference(release.attestation) = Some(hash_object(release.receipt))
             /\ Reference(release.v2_attestation) =
                    Some(hash_object(release.v2_receipt))
             /\ get(release.v2_summary, "release_attestation_hash") =
                    Some(hash_object(release.v2_attestation))
             /\ release.publication.text =
                    PublicationText(First(release), release.attestation)
  <2>1. FirstAudited(release) /\ SecondAudited(release)
    BY DEF Audited
  <2>2. /\ Attests(release.attestation, First(release))
        /\ release.publication.text =
               PublicationText(First(release), release.attestation)
    BY <2>1 DEF FirstAudited
  <2>3. /\ Attests(release.v2_attestation, Second(release))
        /\ get(release.v2_summary, "release_attestation_hash") =
               Some(hash_object(release.v2_attestation))
    BY <2>1 DEF SecondAudited
  <2> QED
    BY <2>2, <2>3, BundleNames, Zenon DEF Attests
<1> HIDE DEF Reference
<1>2. ASSUME one.attestation = other.attestation
      PROVE  one.receipt = other.receipt
  <2>1. Some(hash_object(one.receipt)) = Some(hash_object(other.receipt))
    BY <1>1, <1>2, Zenon
  <2> QED
    BY <2>1, SameDigest, Zenon
<1>3. ASSUME one.v2_attestation = other.v2_attestation
      PROVE  one.v2_receipt = other.v2_receipt
  <2>1. Some(hash_object(one.v2_receipt)) = Some(hash_object(other.v2_receipt))
    BY <1>1, <1>3, Zenon
  <2> QED
    BY <2>1, SameDigest, Zenon
<1>4. ASSUME one.v2_summary = other.v2_summary
      PROVE  one.v2_attestation = other.v2_attestation
  <2>1. Some(hash_object(one.v2_attestation)) = Some(hash_object(other.v2_attestation))
    BY <1>1, <1>4, Zenon
  <2> QED
    BY <2>1, SameDigest, Zenon
<1>5. ASSUME one.publication = other.publication
      PROVE  one.attestation = other.attestation
  <2>1. PublicationText(First(one), one.attestation) =
            PublicationText(First(other), other.attestation)
    BY <1>1, <1>5, Zenon
  <2>2. \A bundle, attestation :
            PublicationText(bundle, attestation).release[4] = hash_object(attestation)
    BY DEF PublicationText
  <2>3. PublicationText(First(one), one.attestation).release[4] =
            PublicationText(First(other), other.attestation).release[4]
    BY <2>1, Zenon
  <2>4. hash_object(one.attestation) = hash_object(other.attestation)
    BY <2>2, <2>3
  <2> QED
    BY <2>4, DigestsDiffer
<1> QED
  BY <1>2, <1>3, <1>4, <1>5

(***************************************************************************)
(* The commitment is in the manifest, the evidence in the claim and the    *)
(* verdict, and the record in the worker's evidence.                       *)
(***************************************************************************)
LEMMA EvidenceFixed ==
    ASSUME NEW one, NEW other, Audited(one), Audited(other)
    PROVE  /\ one.manifest = other.manifest => one.commitment = other.commitment
           /\ one.v2_claim = other.v2_claim =>
                  one.v2_worker_evidence = other.v2_worker_evidence
           /\ one.v2_verdict = other.v2_verdict =>
                  one.v2_verifier_evidence = other.v2_verifier_evidence
           /\ one.v2_worker_evidence = other.v2_worker_evidence =>
                  one.v2_record = other.v2_record
<1>1. ASSUME NEW release \in {one, other}
      PROVE  /\ get(release.manifest.payload, "policy_commitment") =
                    Some(release.commitment)
             /\ get(release.v2_claim.payload, "worker_evidence") =
                    Some(hash_object(release.v2_worker_evidence))
             /\ get(release.v2_verdict.payload, "evidence_hash") =
                    Some(hash_object(release.v2_verifier_evidence))
             /\ release.v2_worker_evidence.read_body = <<release.v2_record>>
  <2>1. FirstAudited(release) /\ SecondAudited(release)
    BY DEF Audited
  <2>2. Sealed(First(release), release.commitment)
    BY <2>1 DEF FirstAudited
  <2>3. Evidenced(release)
    BY <2>1 DEF SecondAudited
  <2>4. get(release.manifest.payload, "policy_commitment") = Some(release.commitment)
    BY <2>2, BundleNames DEF Sealed
  <2> QED
    BY <2>3, <2>4, Zenon DEF Evidenced
<1>2. one.manifest = other.manifest => one.commitment = other.commitment
  BY <1>1, SomeIsOne, Zenon
<1>3. ASSUME one.v2_claim = other.v2_claim
      PROVE  one.v2_worker_evidence = other.v2_worker_evidence
  <2>1. Some(hash_object(one.v2_worker_evidence)) =
            Some(hash_object(other.v2_worker_evidence))
    BY <1>1, <1>3, Zenon
  <2> QED
    BY <2>1, SameDigest, Zenon
<1>4. ASSUME one.v2_verdict = other.v2_verdict
      PROVE  one.v2_verifier_evidence = other.v2_verifier_evidence
  <2>1. Some(hash_object(one.v2_verifier_evidence)) =
            Some(hash_object(other.v2_verifier_evidence))
    BY <1>1, <1>4, Zenon
  <2> QED
    BY <2>1, SameDigest, Zenon
<1>5. ASSUME one.v2_worker_evidence = other.v2_worker_evidence
      PROVE  one.v2_record = other.v2_record
  <2>1. <<one.v2_record>> = <<other.v2_record>>
    BY <1>1, <1>5, Zenon
  <2> QED
    BY <2>1
<1> QED
  BY <1>2, <1>3, <1>4, <1>5

(***************************************************************************)
(* A request is fixed by its writer, its nonce and its text.               *)
(***************************************************************************)
LEMMA RequestIs ==
    ASSUME NEW room, NEW request, verify_technocore_request(room, request)
    PROVE  request = [did |-> request.did, nonce |-> request.nonce,
                      text |-> request.text,
                      sig |-> [signer |-> request.did,
                               message |-> <<room, str(request.nonce), request.text>>]]
<1> DEFINE sig == [signer |-> request.did,
                   message |-> <<room, str(request.nonce), request.text>>]
<1>1. /\ DOMAIN request = {"did", "nonce", "sig", "text"}
      /\ request = [field \in DOMAIN request |-> request[field]]
      /\ request.sig = sig
  BY DEF verify_technocore_request, IsRequest
<1> HIDE DEF sig
<1>2. request = [did |-> request.did, nonce |-> request.nonce,
                 text |-> request.text, sig |-> sig]
  BY <1>1
<1> QED
  BY <1>2 DEF sig

LEMMA RequestFixed ==
    ASSUME NEW one, NEW other, Audited(one), Audited(other),
           one.v2_record = other.v2_record
    PROVE  one.v2_request = other.v2_request
<1>1. ASSUME NEW release \in {one, other}
      PROVE  /\ verify_technocore_request(V2_ROOM, release.v2_request)
             /\ release.v2_request.did = release.v2_record.from
             /\ release.v2_request.nonce = str(release.v2_record.nonce)
             /\ release.v2_request.text = release.v2_record.text
  <2>1. Recorded(release.v2_request, release.v2_record, release.v2_claim.signer)
    BY DEF Audited, SecondAudited
  <2> QED
    BY <2>1, Zenon DEF Recorded
<1>2. /\ one.v2_request.did = other.v2_request.did
      /\ one.v2_request.nonce = other.v2_request.nonce
      /\ one.v2_request.text = other.v2_request.text
  BY <1>1, Zenon
<1> DEFINE Said(r) == [did |-> r.did, nonce |-> r.nonce, text |-> r.text,
                       sig |-> [signer |-> r.did,
                                message |-> <<V2_ROOM, str(r.nonce), r.text>>]]
<1>3. /\ one.v2_request = Said(one.v2_request)
      /\ other.v2_request = Said(other.v2_request)
  BY <1>1, RequestIs
<1>4. Said(one.v2_request) = Said(other.v2_request)
  BY <1>2
<1> HIDE DEF Said
<1> QED
  BY <1>3, <1>4, Zenon

LEMMA PublicationFixed ==
    ASSUME NEW one, NEW other, Audited(one), Audited(other),
           one.receipt = other.receipt, one.attestation = other.attestation,
           one.manifest = other.manifest
    PROVE  Unread("publication", other.publication, one.publication)
<1>1. ASSUME NEW release \in {one, other}
      PROVE  /\ verify_technocore_request(ROOM, release.publication)
             /\ release.publication.did = release.receipt.signer
             /\ release.publication.text =
                    PublicationText(First(release), release.attestation)
  BY DEF Audited, FirstAudited
<1>2. PublicationText(First(one), one.attestation) =
          PublicationText(First(other), other.attestation)
  BY BundleNames DEF PublicationText
<1>3. /\ one.publication.did = other.publication.did
      /\ one.publication.text = other.publication.text
  BY <1>1, <1>2, Zenon
<1>4. \A did, nonce, text, sig :
          [[did |-> did, nonce |-> nonce, text |-> text, sig |-> sig]
              EXCEPT !.nonce = 0, !.sig = 0]
          = [did |-> did, nonce |-> 0, text |-> text, sig |-> 0]
  <2> TAKE did, nonce, text, sig
  <2> DEFINE r == [did |-> did, nonce |-> nonce, text |-> text, sig |-> sig]
             u == [did |-> did, nonce |-> 0, text |-> text, sig |-> sig]
  <2>1. [r EXCEPT !.nonce = 0] = u
    OBVIOUS
  <2>2. [u EXCEPT !.sig = 0] = [did |-> did, nonce |-> 0, text |-> text, sig |-> 0]
    OBVIOUS
  <2> HIDE DEF r, u
  <2>3. [r EXCEPT !.nonce = 0, !.sig = 0] = [[r EXCEPT !.nonce = 0] EXCEPT !.sig = 0]
    OBVIOUS
  <2>4. [r EXCEPT !.nonce = 0, !.sig = 0] =
            [did |-> did, nonce |-> 0, text |-> text, sig |-> 0]
    BY <2>1, <2>2, <2>3, Zenon
  <2> QED
    BY <2>4, Zenon DEF r
<1>5. ASSUME NEW release \in {one, other}
      PROVE  [release.publication EXCEPT !.nonce = 0, !.sig = 0] =
                 [did |-> release.publication.did, nonce |-> 0,
                  text |-> release.publication.text, sig |-> 0]
  <2> DEFINE request == release.publication
             sig == [signer |-> request.did,
                     message |-> <<ROOM, str(request.nonce), request.text>>]
  <2>1. request = [did |-> request.did, nonce |-> request.nonce,
                   text |-> request.text, sig |-> sig]
    BY <1>1, RequestIs
  <2> HIDE DEF request, sig
  <2>2. PICK did, nonce, text :
            /\ request = [did |-> did, nonce |-> nonce, text |-> text, sig |-> sig]
            /\ did = request.did /\ text = request.text
    BY <2>1, Zenon
  <2> DEFINE Blank(r) == [r EXCEPT !.nonce = 0, !.sig = 0]
             new == [did |-> did, nonce |-> nonce, text |-> text, sig |-> sig]
             old == [did |-> did, nonce |-> 0, text |-> text, sig |-> 0]
  <2>3. Blank(new) = old
    BY <1>4, Zenon
  <2>4. request = new
    BY <2>2
  <2> HIDE DEF Blank, new, old
  <2>5. Blank(request) = old
    BY <2>3, <2>4, Zenon
  <2>6. old = [did |-> request.did, nonce |-> 0, text |-> request.text, sig |-> 0]
    BY <2>2, Zenon DEF old
  <2> QED
    BY <2>5, <2>6, Zenon DEF request, Blank
<1> QED
  BY <1>3, <1>5, Zenon DEF Unread

LEMMA SummariesFixed ==
    ASSUME NEW one, NEW other, Audited(one), Audited(other)
    PROVE  /\ one.receipt = other.receipt /\ one.verdict = other.verdict =>
                  Unread("summary", other.summary, one.summary)
           /\ (/\ one.v2_receipt = other.v2_receipt
               /\ one.v2_verdict = other.v2_verdict
               /\ one.v2_attestation = other.v2_attestation)
              => Unread("v2_summary", other.v2_summary, one.v2_summary)
<1>1. ASSUME NEW release \in {one, other}
      PROVE  /\ get(release.summary, "bundle_integrity") = Some(Text("PASS"))
             /\ get(release.summary, "certified_exit") =
                    get(release.verdict.payload, "outcome")
             /\ get(release.summary, "receipt_hash") =
                    Some(hash_object(release.receipt))
             /\ get(release.v2_summary, "bundle_integrity") = Some(Text("PASS"))
             /\ get(release.v2_summary, "certified_exit") =
                    get(release.v2_verdict.payload, "outcome")
             /\ get(release.v2_summary, "receipt_hash") =
                    Some(hash_object(release.v2_receipt))
             /\ get(release.v2_summary, "release_attestation_hash") =
                    Some(hash_object(release.v2_attestation))
  <2>1. /\ SummaryAgrees(release.summary, First(release))
        /\ SummaryAgrees(release.v2_summary, Second(release))
        /\ get(release.v2_summary, "release_attestation_hash") =
               Some(hash_object(release.v2_attestation))
    BY DEF Audited, FirstAudited, SecondAudited
  <2> QED
    BY <2>1, BundleNames, Zenon DEF SummaryAgrees, Outcome
<1>2. ASSUME one.receipt = other.receipt, one.verdict = other.verdict
      PROVE  \A field \in SummaryFields :
                 get(other.summary, field) = get(one.summary, field)
  BY <1>1, <1>2, Zenon DEF SummaryFields
<1>3. ASSUME one.v2_receipt = other.v2_receipt, one.v2_verdict = other.v2_verdict,
             one.v2_attestation = other.v2_attestation
      PROVE  /\ \A field \in SummaryFields :
                    get(other.v2_summary, field) = get(one.v2_summary, field)
             /\ get(other.v2_summary, "release_attestation_hash") =
                    get(one.v2_summary, "release_attestation_hash")
  BY <1>1, <1>3, Zenon DEF SummaryFields
<1>4. ASSUME one.receipt = other.receipt, one.verdict = other.verdict
      PROVE  Unread("summary", other.summary, one.summary)
  BY <1>2, <1>4 DEF Unread
<1>5. ASSUME one.v2_receipt = other.v2_receipt, one.v2_verdict = other.v2_verdict,
             one.v2_attestation = other.v2_attestation
      PROVE  Unread("v2_summary", other.v2_summary, one.v2_summary)
  BY <1>3, <1>5 DEF Unread
<1> QED
  BY <1>4, <1>5

LEMMA OneFileDiffers ==
    ASSUME NEW one, NEW other, NEW name \in ReleaseFiles, Differ(one, other, name),
           Audited(one), Audited(other), other[name] # one[name]
    PROVE  Unread(name, other[name], one[name])
<1>1. \A n \in ReleaseFiles : n # name => other[n] = one[n]
  BY DEF Differ
<1>2. CASE name \in {"manifest", "claim", "verdict"}
  <2>1. one.receipt = other.receipt
    BY <1>1, <1>2 DEF ReleaseFiles
  <2> QED
    BY <1>2, <2>1, DocumentsFixed
<1>3. CASE name \in {"v2_manifest", "v2_claim", "v2_verdict"}
  <2>1. one.v2_receipt = other.v2_receipt
    BY <1>1, <1>3 DEF ReleaseFiles
  <2> QED
    BY <1>3, <2>1, DocumentsFixed
<1>4. CASE name \in {"receipt", "v2_receipt", "attestation", "v2_attestation"}
  <2>1. /\ name # "attestation" => one.attestation = other.attestation
        /\ name # "v2_attestation" => one.v2_attestation = other.v2_attestation
        /\ one.publication = other.publication
        /\ one.v2_summary = other.v2_summary
    BY <1>1, <1>4 DEF ReleaseFiles
  <2> QED
    BY <1>4, <2>1, AttestedFixed
<1>5. CASE name \in {"commitment", "v2_worker_evidence", "v2_verifier_evidence",
                     "v2_record"}
  <2>1. /\ one.manifest = other.manifest
        /\ one.v2_claim = other.v2_claim
        /\ one.v2_verdict = other.v2_verdict
        /\ name = "v2_record" => one.v2_worker_evidence = other.v2_worker_evidence
    BY <1>1, <1>5 DEF ReleaseFiles
  <2> QED
    BY <1>5, <2>1, EvidenceFixed
<1>6. CASE name = "v2_request"
  <2>1. one.v2_record = other.v2_record
    BY <1>1, <1>6 DEF ReleaseFiles
  <2> QED
    BY <1>6, <2>1, RequestFixed
<1>7. CASE name = "publication"
  <2>1. /\ one.receipt = other.receipt /\ one.manifest = other.manifest
        /\ one.attestation = other.attestation
    BY <1>1, <1>7 DEF ReleaseFiles
  <2> QED
    BY <1>7, <2>1, PublicationFixed
<1>8. CASE name \in {"summary", "v2_summary"}
  <2>1. /\ one.receipt = other.receipt /\ one.verdict = other.verdict
        /\ one.v2_receipt = other.v2_receipt /\ one.v2_verdict = other.v2_verdict
        /\ one.v2_attestation = other.v2_attestation
    BY <1>1, <1>8 DEF ReleaseFiles
  <2> QED
    BY <1>8, <2>1, SummariesFixed
<1> QED
  BY <1>2, <1>3, <1>4, <1>5, <1>6, <1>7, <1>8 DEF ReleaseFiles

LEMMA ReleasesStand == StoreInv /\ RunInv => AuditedReleasesStand
<1> SUFFICES ASSUME StoreInv, RunInv, NEW p \in DOMAIN state,
                    commands[p].name = "audit", state[p].step = "done"
             PROVE  LET release == ReleaseOf(commands[p], state[p].loaded)
                    IN  /\ OnDisk(p)
                        /\ \A name \in DOMAIN release, other \in Known :
                               /\ other # release[name]
                               /\ Audited([release EXCEPT ![name] = other])
                               => Unread(name, other, release[name])
  BY DEF AuditedReleasesStand, Concluded
<1> DEFINE release == ReleaseOf(commands[p], state[p].loaded)
<1>1. Computed(commands[p], state[p].loaded) =
          Returned(Audited(release), Text("PASS"))
  BY DEF Computed
<1>2. Range(commands[p].names) = ReleaseFiles
  BY CommandKnown DEF CommandOK
<1>3. DOMAIN release = ReleaseFiles
  BY <1>2 DEF ReleaseOf
<1> HIDE DEF release
<1>4. Audited(release)
  BY <1>1, ReportIsComputed
<1>5. ASSUME NEW name \in DOMAIN release, NEW other, other # release[name],
             Audited([release EXCEPT ![name] = other])
      PROVE  Unread(name, other, release[name])
  <2> DEFINE new == [release EXCEPT ![name] = other]
  <2>1. new[name] = other /\ Differ(release, new, name)
    BY <1>3 DEF Differ
  <2> HIDE DEF new
  <2>2. Audited(new)
    BY <1>5 DEF new
  <2> QED
    BY <1>3, <1>4, <1>5, <2>1, <2>2, OneFileDiffers
<1>6. OnDisk(p)
  BY LoadedIsOnDisk
<1> QED
  BY <1>5, <1>6 DEF release

-----------------------------------------------------------------------------
(***************************************************************************)
(* The theorems, each from the invariants above.                           *)
(***************************************************************************)
LEMMA RunInvariant == Spec => [](StoreInv /\ CommitInv /\ RunInv /\ PartsInv)
<1>1. Init => StoreInv /\ CommitInv /\ RunInv /\ PartsInv
  BY InitStore, InitCommit, InitRun, InitParts
<1>2. StoreInv /\ CommitInv /\ RunInv /\ PartsInv /\ [Next]_vars =>
          StoreInv' /\ CommitInv' /\ RunInv' /\ PartsInv'
  BY NextKeepsStore, NextKeepsCommit, NextKeepsRun, NextKeepsParts
<1> QED
  BY <1>1, <1>2, PTL DEF Spec

(***************************************************************************)
(* Every command is at one of its steps and has loaded its files in the    *)
(* order it is given them, each as it was seen on disk.                    *)
(***************************************************************************)
THEOREM CommandsTypeCorrect == Spec => []TypeOK
BY RunInvariant, RunIsTyped, PTL

(***************************************************************************)
(* Half a file is there only while a command fills it or where one was     *)
(* killed: write_json removes the file it could not fill (core.py:126),    *)
(* while a salt that could not be filled stays (core.py:315).              *)
(***************************************************************************)
THEOREM PartsAlwaysExplained == Spec => []PartsAreExplained
BY RunInvariant, PartsHaveCauses, PTL

(***************************************************************************)
(* Both layers of a record request are signed by one DID, although         *)
(* technocore_record_request reads the key file for each of them           *)
(* (core.py:362 and 370) while other commands are writing.                 *)
(***************************************************************************)
THEOREM LayersAlwaysAgree == Spec => []LayersAgree
BY RunInvariant, LayersDoAgree, PTL

(***************************************************************************)
(* A record made with the library and posted is refused by its own         *)
(* verification only if the service gave its nonce back as a number: one   *)
(* padded with zeros no longer compares equal (core.py:412), and one       *)
(* beyond MaxSafeInteger does not load (core.py:68).                       *)
(***************************************************************************)
THEOREM PostedRecordsAlwaysVerify == Spec => PostedRecordsVerify
<1>1. StoreInv /\ RunInv /\ [Next]_vars => [RefusedOnlyAsNumber]_vars
  BY RecordsVerify
<1> QED
  BY <1>1, RunInvariant, PTL DEF Spec, PostedRecordsVerify

(***************************************************************************)
(* A bundle that verify-bundle passed stays on disk as it was verified, is *)
(* by three parties, and is the only one under its receipt, though the     *)
(* four files are read one after another (cli.py:165).                     *)
(***************************************************************************)
THEOREM PassedBundlesAlwaysStand == Spec => []PassedBundlesStand
BY RunInvariant, BundlesStand, PTL

(***************************************************************************)
(* In a release that the audit passed, each of the eighteen files it loads *)
(* is fixed by the others (audit_release.py:65-235), but for the nonce of  *)
(* the publication and the fields of a summary that nobody compares.       *)
(***************************************************************************)
THEOREM AuditedReleasesAlwaysStand == Spec => []AuditedReleasesStand
BY RunInvariant, ReleasesStand, PTL
=============================================================================
