-------------------------- MODULE CommandLineProofs --------------------------
(***************************************************************************)
(* Proofs about the artifact files, for any commands on any directory, any *)
(* number of them killed.                                                  *)
(***************************************************************************)
EXTENDS CommandLine, SequenceTheorems, TLAPS

(***************************************************************************)
(* The path a command has created and not filled yet.                      *)
(***************************************************************************)
Holds(p) ==
    IF state[p].step = "filling" THEN {OutputPath(p)}
    ELSE IF state[p].step = "filling salt" THEN {commands[p].salt}
    ELSE {}

(***************************************************************************)
(* The directory has the paths the commands speak of, and every command's  *)
(* state is one.                                                           *)
(***************************************************************************)
DirectoryOK ==
    /\ disk \in [DOMAIN disk -> Range(disk)]
    /\ \A path \in DOMAIN disk : FileOK(disk[path])
    /\ \A p \in DOMAIN commands : CommandOK(commands[p], DOMAIN disk)
    /\ \A post \in posts : {post.request, post.record} \subseteq DOMAIN disk

StepOK(p) ==
    /\ state[p].step \in {"creating", "filling"} => commands[p].out # None
    /\ state[p].step \in {"reading salt", "creating salt", "filling salt"} =>
           commands[p].name = "commit-policy"

StateOK ==
    /\ state = [p \in DOMAIN commands |-> state[p]]
    /\ \A p \in DOMAIN commands :
           /\ state[p] = [step |-> state[p].step, loaded |-> state[p].loaded,
                          output |-> state[p].output]
           /\ \E S : state[p].loaded \in Seq(S)
           /\ StepOK(p)

(***************************************************************************)
(* Why what was seen stays: the only files that are ever filled or removed *)
(* are those somebody holds, these are parts, and nobody else holds them.  *)
(***************************************************************************)
HeldOK ==
    /\ \A p \in DOMAIN state : \A path \in Holds(p) : disk[path] = Some(Part)
    /\ \A p, q \in DOMAIN state : p # q => Holds(p) \cap Holds(q) = {}

StoreInv ==
    /\ DirectoryOK
    /\ StateOK
    /\ \A s \in seen : s[1] \in DOMAIN disk
    /\ SeenStays
    /\ HeldOK

-----------------------------------------------------------------------------
(***************************************************************************)
(* What is on disk.                                                        *)
(***************************************************************************)
LEMMA WholeIsNotPart ==
    ASSUME NEW content
    PROVE  /\ Whole(content) # Part
           /\ Some(Whole(content)) # Some(Part)
<1>1. Whole(content).whole = TRUE
  BY DEF Whole
<1>2. Part.whole = FALSE
  BY DEF Part
<1>3. Whole(content) # Part
  BY <1>1, <1>2
<1> QED
  BY <1>3 DEF Some

LEMMA OneFile ==
    ASSUME NEW entry, FileOK(entry), NEW file \in entry, file.whole
    PROVE  entry = Some(Whole(file.content))
<1>1. Part.whole = FALSE
  BY DEF Part
<1>2. file # Part
  BY <1>1, Zenon
<1>3. PICK f \in entry : entry = Some(f) /\ f \in {Part, Whole(f.content)}
  BY Zenon DEF FileOK, None
<1>4. f = file
  BY <1>3, Zenon DEF Some
<1> QED
  BY <1>2, <1>3, <1>4, Zenon

LEMMA WholeIsFile == \A content : FileOK(Some(Whole(content)))
<1> TAKE content
<1>1. Whole(content).content = content
  BY DEF Whole
<1> QED
  BY <1>1, Zenon DEF FileOK, Some

LEMMA OutputIsGiven ==
    ASSUME StoreInv, NEW p \in DOMAIN state, commands[p].out # None
    PROVE  OutputPath(p) \in DOMAIN disk
<1>1. commands[p].out \subseteq DOMAIN disk
  BY DEF StoreInv, DirectoryOK, StateOK, CommandOK
<1>2. OutputPath(p) \in commands[p].out
  BY DEF OutputPath, None
<1> QED
  BY <1>1, <1>2

LEMMA CommandKnown ==
    ASSUME StoreInv, NEW p \in DOMAIN state
    PROVE  /\ p \in DOMAIN commands
           /\ CommandOK(commands[p], DOMAIN disk)
           /\ StepOK(p)
           /\ state[p] = [step |-> state[p].step, loaded |-> state[p].loaded,
                          output |-> state[p].output]
           /\ \E S : state[p].loaded \in Seq(S)
BY DEF StoreInv, StateOK, DirectoryOK

LEMMA InitStore == Init => StoreInv
<1> SUFFICES ASSUME Init
             PROVE  StoreInv
  OBVIOUS
<1> PICK scenario \in Scenarios :
        /\ disk = scenario.tree
        /\ commands = scenario.commands
        /\ posts = scenario.posts
        /\ state = [p \in DOMAIN scenario.commands |-> Fresh]
        /\ crashes = 0
        /\ seen = {}
  BY DEF Init
<1>1. DirectoryOK
  BY ScenariosAssumption DEF DirectoryOK, ScenarioOK
<1>2. StateOK
  <2>1. <<>> \in Seq({})
    OBVIOUS
  <2>2. \A p \in DOMAIN commands : state[p] = Fresh
    OBVIOUS
  <2>3. \A p \in DOMAIN commands : \E S : state[p].loaded \in Seq(S)
    BY <2>1, <2>2 DEF Fresh
  <2> QED
    BY <2>2, <2>3 DEF StateOK, StepOK, Fresh
<1>3. HeldOK
  BY DEF HeldOK, Holds, Fresh
<1> QED
  BY <1>1, <1>2, <1>3 DEF StoreInv, SeenStays

(***************************************************************************)
(* A command goes on: its own state changes as the action says, nobody     *)
(* else's does.                                                            *)
(***************************************************************************)
Turn(p, step) ==
    /\ DOMAIN state' = DOMAIN state
    /\ state'[p].step = step
    /\ \A q \in DOMAIN state \ {p} : state'[q] = state[q]

LEMMA TurnKeepsState ==
    ASSUME StoreInv, NEW p \in DOMAIN state, NEW new, UNCHANGED commands,
           state' = [state EXCEPT ![p] = new],
           new = [step |-> new.step, loaded |-> new.loaded, output |-> new.output],
           \E S : new.loaded \in Seq(S),
           new.step \in {"creating", "filling"} => commands[p].out # None,
           new.step \in {"reading salt", "creating salt", "filling salt"} =>
               commands[p].name = "commit-policy"
    PROVE  StateOK' /\ Turn(p, new.step)
<1>1. DOMAIN state = DOMAIN commands
  BY DEF StoreInv, StateOK
<1>2. DOMAIN state' = DOMAIN state /\ state'[p] = new
  BY <1>1 DEF StoreInv, StateOK
<1>3. \A q \in DOMAIN state \ {p} : state'[q] = state[q]
  BY <1>1 DEF StoreInv, StateOK
<1>4. state' = [q \in DOMAIN commands |-> state'[q]]
  BY <1>1 DEF StoreInv, StateOK
<1>5. ASSUME NEW q \in DOMAIN commands
      PROVE  /\ state'[q] = [step |-> state'[q].step, loaded |-> state'[q].loaded,
                             output |-> state'[q].output]
             /\ \E S : state'[q].loaded \in Seq(S)
             /\ StepOK(q)'
  <2>1. CASE q = p
    BY <1>2, <2>1 DEF StepOK
  <2>2. CASE q # p
    BY <1>1, <1>3, <2>2 DEF StoreInv, StateOK, StepOK
  <2> QED
    BY <2>1, <2>2
<1>6. StateOK'
  BY <1>4, <1>5 DEF StateOK
<1> QED
  BY <1>2, <1>3, <1>6 DEF Turn

LEMMA OthersHold ==
    ASSUME NEW p \in DOMAIN state, NEW step, Turn(p, step), UNCHANGED commands
    PROVE  \A q \in DOMAIN state \ {p} : Holds(q)' = Holds(q)
BY DEF Turn, Holds, OutputPath

LEMMA HeldIsThere ==
    ASSUME StoreInv, NEW p \in DOMAIN state
    PROVE  Holds(p) \subseteq DOMAIN disk
<1>1. p \in DOMAIN commands
  BY DEF StoreInv, StateOK
<1>2. StepOK(p)
  BY <1>1 DEF StoreInv, StateOK
<1>3. CASE state[p].step = "filling"
  <2>1. commands[p].out # None
    BY <1>2, <1>3 DEF StepOK
  <2> QED
    BY <1>3, <2>1, OutputIsGiven DEF Holds
<1>4. CASE state[p].step = "filling salt"
  <2>1. commands[p].salt \in DOMAIN disk
    BY <1>1, <1>2, <1>4 DEF StepOK, StoreInv, DirectoryOK, CommandOK
  <2> QED
    BY <1>4, <2>1 DEF Holds
<1> QED
  BY <1>3, <1>4 DEF Holds

(***************************************************************************)
(* What p holds now nobody else does, and what the others hold is theirs   *)
(* as before.                                                              *)
(***************************************************************************)
LEMMA Apart ==
    ASSUME StoreInv, NEW p \in DOMAIN state, NEW step, Turn(p, step),
           \A q \in DOMAIN state \ {p} : Holds(q)' = Holds(q),
           \A q \in DOMAIN state \ {p} : Holds(p)' \cap Holds(q) = {},
           \A q \in DOMAIN state : \A path \in Holds(q)' : disk'[path] = Some(Part)
    PROVE  HeldOK'
<1>1. DOMAIN state' = DOMAIN state
  BY DEF Turn
<1>2. ASSUME NEW q \in DOMAIN state, NEW r \in DOMAIN state, q # r
      PROVE  Holds(q)' \cap Holds(r)' = {}
  <2>1. CASE q = p
    BY <1>2, <2>1
  <2>2. CASE r = p
    BY <1>2, <2>2
  <2>3. CASE q # p /\ r # p
    <3>1. Holds(q) \cap Holds(r) = {}
      BY <1>2 DEF StoreInv, HeldOK
    <3> QED
      BY <2>3, <3>1
  <2> QED
    BY <2>1, <2>2, <2>3
<1> QED
  BY <1>1, <1>2 DEF HeldOK

(***************************************************************************)
(* The three ways a turn may touch the directory.  It may leave the files  *)
(* alone, having seen only what is there.                                  *)
(***************************************************************************)
LEMMA AsideKeepsStore ==
    ASSUME StoreInv, NEW p \in DOMAIN state, NEW step,
           UNCHANGED <<disk, commands, posts>>, StateOK', Turn(p, step),
           step \notin {"filling", "filling salt"},
           \A s \in seen' : \/ s \in seen
                            \/ /\ s[1] \in DOMAIN disk
                               /\ disk[s[1]] = Some(Whole(s[2]))
    PROVE  StoreInv'
<1>1. DirectoryOK'
  BY DEF StoreInv, DirectoryOK
<1>2. \A s \in seen' : s[1] \in DOMAIN disk' /\ disk'[s[1]] = Some(Whole(s[2]))
  BY DEF StoreInv, SeenStays
<1>3. \A q \in DOMAIN state' : Holds(q)' \subseteq Holds(q)
  BY DEF Turn, Holds, OutputPath
<1>4. HeldOK'
  BY <1>3 DEF StoreInv, HeldOK, Turn
<1> QED
  BY <1>1, <1>2, <1>4 DEF StoreInv, SeenStays

(***************************************************************************)
(* It may create a file, where there was none.                             *)
(***************************************************************************)
LEMMA CreateKeepsStore ==
    ASSUME StoreInv, NEW p \in DOMAIN state, NEW step, NEW path \in DOMAIN disk,
           disk[path] = None, disk' = [disk EXCEPT ![path] = Some(Part)],
           UNCHANGED <<commands, posts, seen>>, StateOK', Turn(p, step),
           Holds(p)' = {path}
    PROVE  StoreInv'
<1>1. DirectoryOK'
  <2>1. FileOK(Some(Part))
    BY DEF FileOK, Some
  <2>2. DOMAIN disk' = DOMAIN disk /\ disk' \in [DOMAIN disk' -> Range(disk')]
    BY DEF StoreInv, DirectoryOK, Range
  <2>3. \A other \in DOMAIN disk' : FileOK(disk'[other])
    BY <2>1, <2>2 DEF StoreInv, DirectoryOK
  <2> QED
    BY <2>2, <2>3 DEF StoreInv, DirectoryOK
<1>2. /\ DOMAIN disk' = DOMAIN disk
      /\ disk'[path] = Some(Part)
      /\ \A other \in DOMAIN disk \ {path} : disk'[other] = disk[other]
  BY DEF StoreInv, DirectoryOK
<1>3. SeenStays' /\ \A s \in seen' : s[1] \in DOMAIN disk'
  BY <1>2 DEF StoreInv, SeenStays, None, Some
<1>4. \A q \in DOMAIN state \ {p} : Holds(q)' = Holds(q)
  BY OthersHold
<1>5. \A q \in DOMAIN state : path \notin Holds(q)
  BY DEF StoreInv, HeldOK, None, Some
<1>6. ASSUME NEW q \in DOMAIN state
      PROVE  \A other \in Holds(q)' : disk'[other] = Some(Part)
  <2>1. CASE q = p
    BY <1>2, <2>1
  <2>2. CASE q # p
    <3>1. Holds(q)' = Holds(q) /\ path \notin Holds(q)
      BY <1>4, <1>5, <2>2
    <3>2. \A other \in Holds(q) : other \in DOMAIN disk /\ disk[other] = Some(Part)
      BY HeldIsThere DEF StoreInv, HeldOK
    <3> QED
      BY <1>2, <3>1, <3>2
  <2> QED
    BY <2>1, <2>2
<1>7. \A q \in DOMAIN state \ {p} : Holds(p)' \cap Holds(q) = {}
  BY <1>5
<1>8. HeldOK'
  BY <1>4, <1>6, <1>7, Apart
<1> QED
  BY <1>1, <1>3, <1>8 DEF StoreInv

(***************************************************************************)
(* It may fill, or remove, the file it holds.                              *)
(***************************************************************************)
LEMMA FillKeepsStore ==
    ASSUME StoreInv, NEW p \in DOMAIN state, NEW step, NEW path \in DOMAIN disk,
           Holds(p) = {path}, NEW entry, FileOK(entry),
           disk' = [disk EXCEPT ![path] = entry],
           UNCHANGED <<commands, posts>>, StateOK', Turn(p, step),
           step \notin {"filling", "filling salt"},
           \A s \in seen' : s \in seen \/ (s[1] = path /\ entry = Some(Whole(s[2])))
    PROVE  StoreInv'
<1>1. /\ DOMAIN disk' = DOMAIN disk
      /\ disk'[path] = entry
      /\ \A other \in DOMAIN disk \ {path} : disk'[other] = disk[other]
      /\ disk' \in [DOMAIN disk' -> Range(disk')]
  BY DEF StoreInv, DirectoryOK, Range
<1>2. DirectoryOK'
  BY <1>1 DEF StoreInv, DirectoryOK
<1>3. \A s \in seen : s[1] # path
  <2>1. disk[path] = Some(Part)
    BY DEF StoreInv, HeldOK
  <2> QED
    BY <2>1, WholeIsNotPart DEF StoreInv, SeenStays
<1>4. \A s \in seen' : s[1] \in DOMAIN disk' /\ disk'[s[1]] = Some(Whole(s[2]))
  BY <1>1, <1>3 DEF StoreInv, SeenStays
<1>5. \A q \in DOMAIN state \ {p} : Holds(q)' = Holds(q)
  BY OthersHold
<1>6. \A q \in DOMAIN state \ {p} : path \notin Holds(q)
  BY DEF StoreInv, HeldOK
<1>7. Holds(p)' = {}
  BY DEF Turn, Holds
<1>8. ASSUME NEW q \in DOMAIN state
      PROVE  \A other \in Holds(q)' : disk'[other] = Some(Part)
  <2>1. CASE q = p
    BY <1>7, <2>1
  <2>2. CASE q # p
    <3>1. Holds(q)' = Holds(q) /\ path \notin Holds(q)
      BY <1>5, <1>6, <2>2
    <3>2. \A other \in Holds(q) : other \in DOMAIN disk /\ disk[other] = Some(Part)
      BY HeldIsThere DEF StoreInv, HeldOK
    <3> QED
      BY <1>1, <3>1, <3>2
  <2> QED
    BY <2>1, <2>2
<1>9. HeldOK'
  BY <1>5, <1>7, <1>8, Apart
<1> QED
  BY <1>2, <1>4, <1>9 DEF StoreInv, SeenStays

-----------------------------------------------------------------------------
(***************************************************************************)
(* The forms in which the actions write a command's state.                 *)
(***************************************************************************)
LEMMA Written ==
    ASSUME NEW r,
           r = [step |-> r.step, loaded |-> r.loaded, output |-> r.output],
           NEW step, NEW loaded, NEW output
    PROVE  /\ [r EXCEPT !.step = step] =
                  [step |-> step, loaded |-> r.loaded, output |-> r.output]
           /\ [r EXCEPT !.loaded = loaded] =
                  [step |-> r.step, loaded |-> loaded, output |-> r.output]
           /\ [r EXCEPT !.output = output] =
                  [step |-> r.step, loaded |-> r.loaded, output |-> output]
<1>1. r \in [step : {r.step}, loaded : {r.loaded}, output : {r.output}]
  OBVIOUS
<1> QED
  BY <1>1

LEMMA Rewritten ==
    ASSUME StoreInv, NEW p \in DOMAIN state, NEW step, NEW loaded
    PROVE  /\ [state EXCEPT ![p].step = step] =
                  [state EXCEPT ![p] = [step |-> step, loaded |-> state[p].loaded,
                                        output |-> state[p].output]]
           /\ [state EXCEPT ![p].loaded = loaded] =
                  [state EXCEPT ![p] = [step |-> state[p].step, loaded |-> loaded,
                                        output |-> state[p].output]]
<1> DEFINE r == state[p]
<1>1. r = [step |-> r.step, loaded |-> r.loaded, output |-> r.output]
  BY CommandKnown
<1>2. /\ [state EXCEPT ![p].step = step] =
             [state EXCEPT ![p] = [r EXCEPT !.step = step]]
      /\ [state EXCEPT ![p].loaded = loaded] =
             [state EXCEPT ![p] = [r EXCEPT !.loaded = loaded]]
  OBVIOUS
<1> HIDE DEF r
<1>3. /\ [r EXCEPT !.step = step] =
             [step |-> step, loaded |-> r.loaded, output |-> r.output]
      /\ [r EXCEPT !.loaded = loaded] =
             [step |-> r.step, loaded |-> loaded, output |-> r.output]
  BY <1>1, Written, Zenon
<1> QED
  BY <1>2, <1>3, Zenon DEF r

LEMMA GoesOn ==
    ASSUME StoreInv, NEW p \in DOMAIN state, NEW step, UNCHANGED commands,
           Goes(p, step),
           step \in {"creating", "filling"} => commands[p].out # None,
           step \in {"reading salt", "creating salt", "filling salt"} =>
               commands[p].name = "commit-policy"
    PROVE  StateOK' /\ Turn(p, step)
<1> DEFINE new == [step |-> step, loaded |-> state[p].loaded,
                   output |-> state[p].output]
<1>1. /\ p \in DOMAIN commands
      /\ state[p] = [step |-> state[p].step, loaded |-> state[p].loaded,
                     output |-> state[p].output]
      /\ \E S : state[p].loaded \in Seq(S)
  BY DEF StoreInv, StateOK
<1>2. state' = [state EXCEPT ![p] = new]
  BY Rewritten DEF Goes
<1>3. /\ new = [step |-> new.step, loaded |-> new.loaded, output |-> new.output]
      /\ new.step = step
      /\ new.loaded = state[p].loaded
  OBVIOUS
<1> HIDE DEF new
<1> QED
  BY <1>1, <1>2, <1>3, TurnKeepsState

LEMMA LoadsOn ==
    ASSUME StoreInv, NEW p \in DOMAIN state, NEW step, NEW content,
           UNCHANGED commands,
           \/ /\ state' = [state EXCEPT ![p].step = step,
                                     ![p].loaded = Append(@, content)]
              /\ step = "computing"
           \/ /\ state' = [state EXCEPT ![p].loaded = Append(@, content)]
              /\ step = "reading"
              /\ state[p].step = step
    PROVE  StateOK' /\ Turn(p, step)
<1> DEFINE loaded == Append(state[p].loaded, content)
           new == [step |-> step, loaded |-> loaded, output |-> state[p].output]
<1>1. PICK S : state[p].loaded \in Seq(S)
  BY DEF StoreInv, StateOK
<1>2. loaded \in Seq(S \cup {content})
  <2>1. state[p].loaded \in Seq(S \cup {content})
    BY <1>1
  <2> QED
    BY <2>1
<1>3. /\ new = [step |-> new.step, loaded |-> new.loaded, output |-> new.output]
      /\ new.step = step
      /\ new.loaded = loaded
  OBVIOUS
<1>4. \/ state' = [state EXCEPT ![p].step = step, ![p].loaded = loaded]
      \/ /\ state' = [state EXCEPT ![p].loaded = loaded]
         /\ state[p].step = step
  OBVIOUS
<1>5. step \in {"reading", "computing"}
  OBVIOUS
<1> HIDE DEF loaded
<1>6. state' = [state EXCEPT ![p] = new]
  <2>1. CASE state' = [state EXCEPT ![p].step = step, ![p].loaded = loaded]
    <3> DEFINE r == [state[p] EXCEPT !.step = step]
    <3>1. state' = [state EXCEPT ![p] = [r EXCEPT !.loaded = loaded]]
      BY <2>1
    <3>2. r = [step |-> step, loaded |-> state[p].loaded, output |-> state[p].output]
      BY CommandKnown, Written
    <3> HIDE DEF r
    <3>3. [r EXCEPT !.loaded = loaded] = new
      BY <3>2 DEF new
    <3> QED
      BY <3>1, <3>3, Zenon
  <2>2. CASE /\ state' = [state EXCEPT ![p].loaded = loaded]
             /\ state[p].step = step
    <3>1. state' = [state EXCEPT ![p] = [step |-> state[p].step, loaded |-> loaded,
                                         output |-> state[p].output]]
      BY <2>2, Rewritten, Zenon
    <3> QED
      BY <2>2, <3>1, Zenon
  <2> QED
    BY <1>4, <2>1, <2>2
<1> HIDE DEF new
<1> QED
  BY <1>2, <1>3, <1>5, <1>6, TurnKeepsState

-----------------------------------------------------------------------------
(***************************************************************************)
(* The actions, one after another.                                         *)
(***************************************************************************)
LEMMA ReadKeepsStore ==
    ASSUME StoreInv, NEW p, ReadFile(p)
    PROVE  StoreInv'
<1> USE DEF ReadFile, Reading, At
<1>1. p \in DOMAIN state
  OBVIOUS
<1>2. PICK file \in disk[NextRead(p)] :
         Loadable(file) /\ Loads(p, NextRead(p), file.content)
  OBVIOUS
<1>3. NextRead(p) \in DOMAIN disk
  <2>1. commands[p].reads \in Seq(DOMAIN disk)
    BY <1>1, CommandKnown DEF CommandOK
  <2>2. PICK S : state[p].loaded \in Seq(S)
    BY <1>1, CommandKnown
  <2> QED
    BY <2>1, <2>2 DEF NextRead
<1>4. disk[NextRead(p)] = Some(Whole(file.content))
  BY <1>2, <1>3, OneFile DEF StoreInv, DirectoryOK, Loadable
<1>5. StateOK' /\ Turn(p, "reading")
  BY <1>1, <1>2, LoadsOn DEF Loads
<1>6. \A s \in seen' : s \in seen \/ (/\ s[1] \in DOMAIN disk
                                      /\ disk[s[1]] = Some(Whole(s[2])))
  BY <1>2, <1>3, <1>4 DEF Loads
<1> QED
  BY <1>1, <1>5, <1>6, AsideKeepsStore

LEMMA GoesAsideKeepsStore ==
    ASSUME StoreInv, NEW p \in DOMAIN state, NEW step, Goes(p, step),
           UNCHANGED <<disk, commands, posts, seen>>,
           step \notin {"filling", "filling salt", "creating"},
           step \in {"reading salt", "creating salt"} =>
               commands[p].name = "commit-policy"
    PROVE  StoreInv'
<1>1. StateOK' /\ Turn(p, step)
  BY GoesOn
<1> QED
  BY <1>1, AsideKeepsStore

LEMMA LookKeepsStore ==
    ASSUME StoreInv, NEW p, LookForSalt(p)
    PROVE  StoreInv'
BY GoesAsideKeepsStore DEF LookForSalt, ReadAll, At

LEMMA ReadSaltKeepsStore ==
    ASSUME StoreInv, NEW p, ReadSalt(p)
    PROVE  StoreInv'
<1> USE DEF ReadSalt, At
<1>1. p \in DOMAIN state
  OBVIOUS
<1>2. CASE \E file \in disk[commands[p].salt] : file.whole
  <2>1. PICK file \in disk[commands[p].salt] :
           /\ seen' = seen \cup {<<commands[p].salt, file.content>>}
           /\ state' = [state EXCEPT ![p].step = "computing",
                                     ![p].loaded = Append(@, file.content)]
    BY <1>2
  <2>2. commands[p].salt \in DOMAIN disk
    BY <1>1, CommandKnown DEF CommandOK, StepOK
  <2>3. disk[commands[p].salt] = Some(Whole(file.content))
    <3>1. FileOK(disk[commands[p].salt])
      BY <2>2 DEF StoreInv, DirectoryOK
    <3>2. PICK f \in disk[commands[p].salt] : f.whole
      BY <1>2
    <3>3. disk[commands[p].salt] = Some(Whole(f.content))
      BY <3>1, <3>2, OneFile
    <3>4. file = Whole(f.content)
      BY <3>3 DEF Some
    <3>5. file.content = f.content
      BY <3>4 DEF Whole
    <3> QED
      BY <3>3, <3>5
  <2>4. StateOK' /\ Turn(p, "computing")
    BY <1>1, <2>1, LoadsOn
  <2>5. ASSUME NEW s \in seen'
        PROVE  s \in seen \/ (/\ s[1] \in DOMAIN disk
                              /\ disk[s[1]] = Some(Whole(s[2])))
    <3>1. s \in seen \/ s = <<commands[p].salt, file.content>>
      BY <2>1
    <3>2. CASE s = <<commands[p].salt, file.content>>
      <4>1. s[1] = commands[p].salt /\ s[2] = file.content
        BY <3>2
      <4> QED
        BY <2>2, <2>3, <4>1
    <3> QED
      BY <3>1, <3>2
  <2> QED
    BY <1>1, <2>4, <2>5, AsideKeepsStore
<1>3. CASE ~ \E file \in disk[commands[p].salt] : file.whole
  BY <1>1, <1>3, GoesAsideKeepsStore
<1> QED
  BY <1>2, <1>3

(***************************************************************************)
(* A command that cannot load has failed or raised.                        *)
(***************************************************************************)
LEMMA LoadingEndsIn ==
    ASSUME NEW p, CannotRead(p)
    PROVE  /\ p \in DOMAIN state
           /\ state[p].step = "reading"
           /\ UNCHANGED <<disk, commands, posts, crashes, seen>>
           /\ Goes(p, "failed") \/ Goes(p, "raised")
<1>1. PICK step \in LoadingEnds(commands[p], disk[NextRead(p)]) : Goes(p, step)
  BY DEF CannotRead
<1>2. Refusal(commands[p]) \in {"failed", "raised"}
  BY DEF Refusal
<1>3. step \in {"failed", "raised"}
  BY <1>1, <1>2 DEF LoadingEnds
<1> QED
  BY <1>1, <1>3 DEF CannotRead, Reading, At

LEMMA CannotReadKeepsStore ==
    ASSUME StoreInv, NEW p, CannotRead(p)
    PROVE  StoreInv'
BY LoadingEndsIn, GoesAsideKeepsStore

LEMMA SaltFailsKeepsStore ==
    ASSUME StoreInv, NEW p, SaltFails(p)
    PROVE  StoreInv'
BY GoesAsideKeepsStore DEF SaltFails, At

LEMMA CrashKeepsStore ==
    ASSUME StoreInv, NEW p, Crash(p)
    PROVE  StoreInv'
BY GoesAsideKeepsStore DEF Crash

LEMMA CreateSaltKeepsStore ==
    ASSUME StoreInv, NEW p, CreateSalt(p)
    PROVE  StoreInv'
<1> USE DEF CreateSalt, At
<1>1. p \in DOMAIN state /\ commands[p].name = "commit-policy"
  BY CommandKnown DEF StepOK
<1>2. CASE disk[commands[p].salt] = None
  <2>1. commands[p].salt \in DOMAIN disk
    BY <1>1, CommandKnown DEF CommandOK
  <2>2. StateOK' /\ Turn(p, "filling salt")
    BY <1>1, <1>2, GoesOn
  <2>3. Holds(p)' = {commands[p].salt}
    BY <2>2 DEF Turn, Holds
  <2> QED
    BY <1>1, <1>2, <2>1, <2>2, <2>3, CreateKeepsStore
<1>3. CASE disk[commands[p].salt] # None
  BY <1>1, <1>3, GoesAsideKeepsStore
<1> QED
  BY <1>2, <1>3

LEMMA FillSaltKeepsStore ==
    ASSUME StoreInv, NEW p, FillSalt(p)
    PROVE  StoreInv'
<1> USE DEF FillSalt, At
<1> DEFINE salt == [salt |-> p]
           path == commands[p].salt
<1>1. p \in DOMAIN state /\ commands[p].name = "commit-policy"
  BY CommandKnown DEF StepOK
<1>2. path \in DOMAIN disk
  BY <1>1, CommandKnown DEF CommandOK
<1>3. StateOK' /\ Turn(p, "computing")
  BY <1>1, LoadsOn
<1>4. Holds(p) = {path}
  BY DEF Holds
<1>5. FileOK(Some(Whole(salt)))
  BY WholeIsFile
<1>6. ASSUME NEW s \in seen'
      PROVE  s \in seen \/ (s[1] = path /\ Some(Whole(salt)) = Some(Whole(s[2])))
  <2>1. s \in seen \/ s = <<path, salt>>
    OBVIOUS
  <2>2. CASE s = <<path, salt>>
    <3>1. s[1] = path /\ s[2] = salt
      BY <2>2
    <3> QED
      BY <3>1
  <2> QED
    BY <2>1, <2>2
<1>7. disk' = [disk EXCEPT ![path] = Some(Whole(salt))]
  OBVIOUS
<1> HIDE DEF salt, path
<1> QED
  BY <1>1, <1>2, <1>3, <1>4, <1>5, <1>6, <1>7, FillKeepsStore

LEMMA ComputeKeepsStore ==
    ASSUME StoreInv, NEW p, Compute(p)
    PROVE  StoreInv'
<1>1. p \in DOMAIN state
  BY DEF Compute, Ready, ReadAll, At
<1> DEFINE output == Computed(commands[p], state[p].loaded)
           step == IF Unexpected(commands[p], state[p].loaded) THEN "raised"
                   ELSE IF output = None THEN Refusal(commands[p])
                   ELSE IF commands[p].out = None THEN "done"
                   ELSE "creating"
<1>2. /\ state' = [state EXCEPT ![p].output = output, ![p].step = step]
      /\ step \in {"raised", "failed", "done", "creating"}
      /\ step = "creating" => commands[p].out # None
  <2>1. state' = [state EXCEPT ![p].output = output, ![p].step = step]
    BY DEF Compute
  <2> HIDE DEF output
  <2>2. /\ step \in {"raised", "failed", "done", "creating"}
        /\ step = "creating" => commands[p].out # None
    BY DEF Refusal
  <2> QED
    BY <2>1, <2>2
<1> HIDE DEF output, step
<1> DEFINE new == [step |-> step, loaded |-> state[p].loaded, output |-> output]
<1>3. state' = [state EXCEPT ![p] = new]
  <2> DEFINE r == [state[p] EXCEPT !.output = output]
  <2>1. state' = [state EXCEPT ![p] = [r EXCEPT !.step = step]]
    BY <1>2
  <2>2. r = [step |-> state[p].step, loaded |-> state[p].loaded, output |-> output]
    BY <1>1, CommandKnown, Written
  <2> HIDE DEF r
  <2>3. [r EXCEPT !.step = step] = new
    BY <2>2 DEF new
  <2> QED
    BY <2>1, <2>3, Zenon
<1>4. /\ new = [step |-> new.step, loaded |-> new.loaded, output |-> new.output]
      /\ new.step = step
      /\ new.loaded = state[p].loaded
  OBVIOUS
<1> HIDE DEF new
<1>5. \E S : state[p].loaded \in Seq(S)
  BY <1>1, CommandKnown
<1>6. UNCHANGED <<disk, commands, posts, crashes, seen>>
  BY DEF Compute
<1>7. StateOK' /\ Turn(p, step)
  BY <1>1, <1>2, <1>3, <1>4, <1>5, <1>6, TurnKeepsState
<1> QED
  BY <1>1, <1>2, <1>6, <1>7, AsideKeepsStore

LEMMA CreateFileKeepsStore ==
    ASSUME StoreInv, NEW p, CreateFile(p)
    PROVE  StoreInv'
<1> USE DEF CreateFile, At
<1>1. p \in DOMAIN state /\ commands[p].out # None
  BY CommandKnown DEF StepOK
<1>2. CASE disk[OutputPath(p)] = None
  <2>1. OutputPath(p) \in DOMAIN disk
    BY <1>1, OutputIsGiven
  <2>2. StateOK' /\ Turn(p, "filling")
    BY <1>1, <1>2, GoesOn
  <2>3. Holds(p)' = {OutputPath(p)}
    BY <2>2 DEF Turn, Holds, OutputPath
  <2> QED
    BY <1>1, <1>2, <2>1, <2>2, <2>3, CreateKeepsStore
<1>3. CASE disk[OutputPath(p)] # None
  BY <1>1, <1>3, GoesAsideKeepsStore
<1> QED
  BY <1>2, <1>3

LEMMA FillFileKeepsStore ==
    ASSUME StoreInv, NEW p, FillFile(p)
    PROVE  StoreInv'
<1> USE DEF FillFile, At
<1>1. PICK content \in state[p].output :
         /\ disk' = [disk EXCEPT ![OutputPath(p)] = Some(Whole(content))]
         /\ seen' = seen \cup {<<OutputPath(p), content>>}
  OBVIOUS
<1>2. p \in DOMAIN state /\ commands[p].out # None
  BY CommandKnown DEF StepOK
<1>3. OutputPath(p) \in DOMAIN disk
  BY <1>2, OutputIsGiven
<1>4. StateOK' /\ Turn(p, "done")
  BY <1>2, GoesOn
<1>5. Holds(p) = {OutputPath(p)}
  BY DEF Holds
<1>6. FileOK(Some(Whole(content)))
  BY WholeIsFile
<1>7. ASSUME NEW s \in seen'
      PROVE  \/ s \in seen
             \/ s[1] = OutputPath(p) /\ Some(Whole(content)) = Some(Whole(s[2]))
  <2>1. s \in seen \/ s = <<OutputPath(p), content>>
    BY <1>1
  <2> QED
    BY <2>1
<1> QED
  BY <1>1, <1>2, <1>3, <1>4, <1>5, <1>6, <1>7, FillKeepsStore

LEMMA FileFailsKeepsStore ==
    ASSUME StoreInv, NEW p, FileFails(p)
    PROVE  StoreInv'
<1> USE DEF FileFails, At
<1>1. p \in DOMAIN state /\ commands[p].out # None
  BY CommandKnown DEF StepOK
<1>2. OutputPath(p) \in DOMAIN disk
  BY <1>1, OutputIsGiven
<1>3. StateOK' /\ Turn(p, "failed")
  BY <1>1, GoesOn
<1>4. Holds(p) = {OutputPath(p)}
  BY DEF Holds
<1>5. FileOK(None)
  BY DEF FileOK
<1> QED
  BY <1>1, <1>2, <1>3, <1>4, <1>5, FillKeepsStore

LEMMA PostKeepsStore ==
    ASSUME StoreInv, Post
    PROVE  StoreInv'
<1>1. PICK post \in posts :
         /\ disk[post.record] = None
         /\ \E file \in disk[post.request] :
                disk' = [disk EXCEPT ![post.record] =
                            Some(Whole(Stored(file.content, post.form)))]
  BY DEF Post
<1>2. PICK content :
         disk' = [disk EXCEPT ![post.record] = Some(Whole(content))]
  BY <1>1
<1> DEFINE path == post.record
<1>3. path \in DOMAIN disk
  BY DEF StoreInv, DirectoryOK
<1>4. /\ DOMAIN disk' = DOMAIN disk
      /\ disk'[path] = Some(Whole(content))
      /\ \A other \in DOMAIN disk \ {path} : disk'[other] = disk[other]
      /\ disk' \in [DOMAIN disk' -> Range(disk')]
  BY <1>2, <1>3 DEF StoreInv, DirectoryOK, Range
<1>5. UNCHANGED <<commands, state, seen>> /\ posts' \subseteq posts
  BY DEF Post
<1> HIDE DEF path
<1>6. DirectoryOK'
  BY <1>4, <1>5, WholeIsFile DEF StoreInv, DirectoryOK
<1>7. StateOK'
  BY <1>5 DEF StoreInv, StateOK, StepOK
<1>8. disk[path] = None
  BY <1>1 DEF path
<1>9. \A s \in seen' : s[1] \in DOMAIN disk' /\ disk'[s[1]] = Some(Whole(s[2]))
  BY <1>4, <1>5, <1>8 DEF StoreInv, SeenStays, None, Some
<1>10. HeldOK'
  <2>1. \A q \in DOMAIN state : Holds(q)' = Holds(q)
    BY <1>5 DEF Holds, OutputPath
  <2>2. \A q \in DOMAIN state : \A other \in Holds(q) :
            other \in DOMAIN disk /\ other # path /\ disk[other] = Some(Part)
    BY <1>8, HeldIsThere DEF StoreInv, HeldOK, None, Some
  <2>3. \A q \in DOMAIN state : \A other \in Holds(q)' : disk'[other] = Some(Part)
    BY <1>4, <2>1, <2>2
  <2> QED
    BY <1>5, <2>1, <2>3 DEF StoreInv, HeldOK
<1> QED
  BY <1>6, <1>7, <1>9, <1>10 DEF StoreInv, SeenStays

LEMMA StutterKeepsStore ==
    ASSUME StoreInv, UNCHANGED vars
    PROVE  StoreInv'
<1>1. UNCHANGED <<disk, commands, state, posts, seen>>
  BY DEF vars
<1>2. DirectoryOK'
  BY <1>1 DEF StoreInv, DirectoryOK
<1>3. StateOK'
  BY <1>1 DEF StoreInv, StateOK, StepOK
<1>4. HeldOK'
  <2>1. \A q \in DOMAIN state : Holds(q)' = Holds(q)
    BY <1>1 DEF Holds, OutputPath
  <2> QED
    BY <1>1, <2>1 DEF StoreInv, HeldOK
<1> QED
  BY <1>1, <1>2, <1>3, <1>4 DEF StoreInv, SeenStays

LEMMA NextKeepsStore == StoreInv /\ [Next]_vars => StoreInv'
<1> SUFFICES ASSUME StoreInv, [Next]_vars
             PROVE  StoreInv'
  OBVIOUS
<1>1. ASSUME NEW p \in 1 .. MaxCommands, Step(p)
      PROVE  StoreInv'
  BY <1>1, ReadKeepsStore, CannotReadKeepsStore, LookKeepsStore,
     ReadSaltKeepsStore, CreateSaltKeepsStore, FillSaltKeepsStore,
     SaltFailsKeepsStore, ComputeKeepsStore, CreateFileKeepsStore,
     FillFileKeepsStore, FileFailsKeepsStore, Zenon DEF Step
<1>2. ASSUME NEW p \in 1 .. MaxCommands, Crash(p)
      PROVE  StoreInv'
  BY <1>2, CrashKeepsStore
<1>3. CASE Post
  BY <1>3, PostKeepsStore
<1>4. CASE UNCHANGED vars
  BY <1>4, StutterKeepsStore
<1> QED
  BY <1>1, <1>2, <1>3, <1>4 DEF Next

(***************************************************************************)
(* What a command loaded, or reported to have written, stays on disk as it *)
(* was, for any commands over any directory, killed or failing anywhere:   *)
(* it follows from the exclusive creation in write_json (core.py:118) and  *)
(* create_policy_commitment (core.py:312), by the invariant above.         *)
(***************************************************************************)
THEOREM SeenStaysAlways == Spec => []SeenStays
<1>1. StoreInv => SeenStays
  BY DEF StoreInv
<1> QED
  BY <1>1, InitStore, NextKeepsStore, PTL DEF Spec

-----------------------------------------------------------------------------
(***************************************************************************)
(* What a commit-policy command knows at each step: the policy and then    *)
(* the salt it has loaded are ones that were seen on disk, and what it     *)
(* publishes is made of these two.                                         *)
(***************************************************************************)
Saw(p, path, i) == <<path, state[p].loaded[i]>> \in seen

CommitOK(p) ==
    /\ state[p].loaded # <<>> => Saw(p, commands[p].reads[1], 1)
    /\ state[p].step \in {"reading salt", "creating salt", "filling salt"} =>
           Len(state[p].loaded) = 1
    /\ state[p].step \in {"computing", "creating", "filling", "done"} =>
           /\ Len(state[p].loaded) = 2
           /\ Saw(p, commands[p].salt, 2)
    /\ state[p].step \in {"creating", "filling", "done"} =>
           state[p].output =
               Some(policy_commitment(state[p].loaded[1], state[p].loaded[2]))

CommitInv ==
    \A p \in DOMAIN state : commands[p].name = "commit-policy" => CommitOK(p)

LEMMA InitCommit == Init => CommitInv
<1> SUFFICES ASSUME Init, NEW p \in DOMAIN state
             PROVE  CommitOK(p)
  BY DEF CommitInv
<1>1. state[p] = Fresh
  BY DEF Init
<1>2. state[p].step = "reading" /\ state[p].loaded = <<>>
  BY <1>1 DEF Fresh
<1> QED
  BY <1>2 DEF CommitOK

(***************************************************************************)
(* Nothing seen is forgotten, so a turn of p leaves the others what they   *)
(* know.                                                                   *)
(***************************************************************************)
Becomes(p, step, loaded, output) ==
    /\ DOMAIN state' = DOMAIN state
    /\ state'[p].step = step
    /\ state'[p].loaded = loaded
    /\ state'[p].output = output
    /\ \A q \in DOMAIN state \ {p} : state'[q] = state[q]

LEMMA TurnKeepsCommit ==
    ASSUME CommitInv, NEW p \in DOMAIN state, NEW step, NEW loaded, NEW output,
           Becomes(p, step, loaded, output), UNCHANGED commands, seen \subseteq seen',
           commands[p].name = "commit-policy" => CommitOK(p)'
    PROVE  CommitInv'
<1> SUFFICES ASSUME NEW q \in DOMAIN state, commands[q].name = "commit-policy"
             PROVE  CommitOK(q)'
  BY DEF CommitInv, Becomes
<1>1. CASE q = p
  BY <1>1
<1>2. CASE q # p
  <2>1. state'[q] = state[q]
    BY <1>2 DEF Becomes
  <2>2. CommitOK(q)
    BY DEF CommitInv
  <2> QED
    BY <2>1, <2>2 DEF CommitOK, Saw
<1> QED
  BY <1>1, <1>2

LEMMA GoesTo ==
    ASSUME StoreInv, NEW p \in DOMAIN state, NEW step, Goes(p, step)
    PROVE  Becomes(p, step, state[p].loaded, state[p].output)
<1>1. state' = [state EXCEPT ![p] = [step |-> step, loaded |-> state[p].loaded,
                                     output |-> state[p].output]]
  BY Rewritten DEF Goes
<1>2. state = [q \in DOMAIN state |-> state[q]]
  BY DEF StoreInv, StateOK
<1> QED
  BY <1>1, <1>2 DEF Becomes

(***************************************************************************)
(* A command that goes on without loading or computing anything.           *)
(***************************************************************************)
LEMMA GoesKeepsCommit ==
    ASSUME StoreInv, CommitInv, NEW p \in DOMAIN state, NEW step, Goes(p, step),
           UNCHANGED commands, seen \subseteq seen',
           \/ step \in {"failed", "raised", "killed"}
           \/ step \in {"reading salt", "creating salt", "filling salt"}
              /\ Len(state[p].loaded) = 1
           \/ step \in {"filling", "done"}
              /\ state[p].step \in {"creating", "filling"}
    PROVE  CommitInv'
<1>1. Becomes(p, step, state[p].loaded, state[p].output)
  BY GoesTo
<1>2. ASSUME commands[p].name = "commit-policy"
      PROVE  CommitOK(p)'
  <2>1. CommitOK(p)
    BY <1>2 DEF CommitInv
  <2> QED
    BY <1>1, <2>1 DEF CommitOK, Saw, Becomes
<1> QED
  BY <1>1, <1>2, TurnKeepsCommit

LEMMA LoadsTo ==
    ASSUME StoreInv, NEW p \in DOMAIN state, NEW content
    PROVE  /\ state' = [state EXCEPT ![p].loaded = Append(@, content)] =>
                  Becomes(p, state[p].step, Append(state[p].loaded, content),
                          state[p].output)
           /\ state' = [state EXCEPT ![p].step = "computing",
                                     ![p].loaded = Append(@, content)] =>
                  Becomes(p, "computing", Append(state[p].loaded, content),
                          state[p].output)
<1> DEFINE loaded == Append(state[p].loaded, content)
<1>1. state = [q \in DOMAIN state |-> state[q]]
  BY DEF StoreInv, StateOK
<1>2. ASSUME state' = [state EXCEPT ![p].loaded = loaded]
      PROVE  Becomes(p, state[p].step, loaded, state[p].output)
  <2> HIDE DEF loaded
  <2>1. state' = [state EXCEPT ![p] = [step |-> state[p].step, loaded |-> loaded,
                                       output |-> state[p].output]]
    BY <1>2, Rewritten, Zenon
  <2> QED
    BY <1>1, <2>1 DEF Becomes
<1>3. ASSUME state' = [state EXCEPT ![p].step = "computing", ![p].loaded = loaded]
      PROVE  Becomes(p, "computing", loaded, state[p].output)
  <2> HIDE DEF loaded
  <2> DEFINE r == [state[p] EXCEPT !.step = "computing"]
  <2>1. state' = [state EXCEPT ![p] = [r EXCEPT !.loaded = loaded]]
    BY <1>3
  <2>2. r = [step |-> "computing", loaded |-> state[p].loaded,
             output |-> state[p].output]
    BY CommandKnown, Written
  <2> HIDE DEF r
  <2>3. [r EXCEPT !.loaded = loaded] =
            [step |-> "computing", loaded |-> loaded, output |-> state[p].output]
    BY <2>2
  <2>4. state' = [state EXCEPT ![p] = [step |-> "computing", loaded |-> loaded,
                                       output |-> state[p].output]]
    BY <2>1, <2>3, Zenon
  <2> QED
    BY <1>1, <2>4 DEF Becomes
<1> QED
  BY <1>2, <1>3

(***************************************************************************)
(* The policy is the first thing a commit-policy command loads.            *)
(***************************************************************************)
LEMMA ReadKeepsCommit ==
    ASSUME StoreInv, CommitInv, NEW p, ReadFile(p)
    PROVE  CommitInv'
<1>1. p \in DOMAIN state /\ state[p].step = "reading"
  BY DEF ReadFile, Reading, At
<1>2. PICK content : Loads(p, NextRead(p), content)
  BY DEF ReadFile
<1>3. UNCHANGED commands /\ seen \subseteq seen'
  BY <1>2 DEF ReadFile, Loads
<1>4. Becomes(p, "reading", Append(state[p].loaded, content), state[p].output)
  BY <1>1, <1>2, LoadsTo DEF Loads
<1>5. ASSUME commands[p].name = "commit-policy"
      PROVE  CommitOK(p)'
  <2>1. PICK S : state[p].loaded \in Seq(S)
    BY <1>1, CommandKnown
  <2>2. Len(state[p].loaded) < 1
    BY <1>1, <1>5, CommandKnown DEF CommandOK, ReadFile, Reading
  <2>3. state[p].loaded = <<>>
    BY <2>1, <2>2
  <2>4. NextRead(p) = commands[p].reads[1]
    BY <2>3 DEF NextRead
  <2>5. state'[p].loaded = <<content>> /\ state'[p].step = "reading"
    BY <1>4, <2>3 DEF Becomes
  <2>6. <<commands[p].reads[1], content>> \in seen'
    BY <1>2, <2>4 DEF Loads
  <2> QED
    BY <1>3, <2>5, <2>6 DEF CommitOK, Saw
<1> QED
  BY <1>1, <1>3, <1>4, <1>5, TurnKeepsCommit

LEMMA SecondAppended ==
    ASSUME NEW S, NEW s \in Seq(S), NEW e, Len(s) = 1
    PROVE  /\ s # <<>>
           /\ Len(Append(s, e)) = 2
           /\ Append(s, e)[1] = s[1]
           /\ Append(s, e)[2] = e
<1>1. s \in Seq(S \cup {e}) /\ e \in S \cup {e}
  OBVIOUS
<1>2. s # <<>>
  BY EmptySeq
<1>3. /\ Len(Append(s, e)) = Len(s) + 1
      /\ \A i \in 1 .. Len(s) : Append(s, e)[i] = s[i]
      /\ Append(s, e)[Len(s) + 1] = e
  BY <1>1, AppendProperties
<1>4. Len(Append(s, e)) = 2
  BY <1>3
<1>5. Append(s, e)[1] = s[1]
  BY <1>3
<1>6. Append(s, e)[2] = e
  BY <1>3
<1> QED
  BY <1>2, <1>4, <1>5, <1>6

(***************************************************************************)
(* The salt, read or made, is the second.                                  *)
(***************************************************************************)
SaltLoaded(p, drawn) ==
    /\ Becomes(p, "computing", Append(state[p].loaded, drawn), state[p].output)
    /\ seen' = seen \cup {<<commands[p].salt, drawn>>}

LEMMA SaltKeepsCommit ==
    ASSUME StoreInv, CommitInv, NEW p \in DOMAIN state, NEW drawn,
           commands[p].name = "commit-policy" => Len(state[p].loaded) = 1,
           SaltLoaded(p, drawn), UNCHANGED commands
    PROVE  CommitInv'
<1>1. ASSUME commands[p].name = "commit-policy"
      PROVE  CommitOK(p)'
  <2>1. PICK S : state[p].loaded \in Seq(S)
    BY CommandKnown
  <2>2. CommitOK(p)
    BY <1>1 DEF CommitInv
  <2>3. Len(state[p].loaded) = 1
    BY <1>1
  <2>4. state[p].loaded # <<>>
    BY <2>1, <2>3, SecondAppended
  <2>5. Saw(p, commands[p].reads[1], 1)
    BY <2>2, <2>4 DEF CommitOK
  <2>6. /\ state'[p].loaded = Append(state[p].loaded, drawn)
        /\ state'[p].step = "computing"
    BY DEF SaltLoaded, Becomes
  <2>7. /\ Len(state'[p].loaded) = 2
        /\ state'[p].loaded[1] = state[p].loaded[1]
        /\ state'[p].loaded[2] = drawn
    <3>1. Len(Append(state[p].loaded, drawn)) = 2
      BY <2>1, <2>3, SecondAppended
    <3>2. Append(state[p].loaded, drawn)[1] = state[p].loaded[1]
      BY <2>1, <2>3, SecondAppended
    <3>3. Append(state[p].loaded, drawn)[2] = drawn
      BY <2>1, <2>3, SecondAppended
    <3> QED
      BY <2>6, <3>1, <3>2, <3>3, Zenon
  <2> QED
    BY <2>5, <2>6, <2>7 DEF SaltLoaded, CommitOK, Saw
<1> QED
  BY <1>1, TurnKeepsCommit DEF SaltLoaded

LEMMA ComputeKeepsCommit ==
    ASSUME StoreInv, CommitInv, NEW p, Compute(p)
    PROVE  CommitInv'
<1> DEFINE output == Computed(commands[p], state[p].loaded)
           step == IF Unexpected(commands[p], state[p].loaded) THEN "raised"
                   ELSE IF output = None THEN Refusal(commands[p])
                   ELSE IF commands[p].out = None THEN "done"
                   ELSE "creating"
<1>1. p \in DOMAIN state /\ UNCHANGED <<commands, seen>>
  BY DEF Compute, Ready, ReadAll, At
<1>2. Becomes(p, step, state[p].loaded, output)
  <2>1. state' = [state EXCEPT ![p].output = output, ![p].step = step]
    BY DEF Compute
  <2> HIDE DEF output, step
  <2> DEFINE r == [state[p] EXCEPT !.output = output]
  <2>2. state' = [state EXCEPT ![p] = [r EXCEPT !.step = step]]
    BY <2>1
  <2>3. r = [step |-> state[p].step, loaded |-> state[p].loaded, output |-> output]
    BY <1>1, CommandKnown, Written
  <2> HIDE DEF r
  <2>4. [r EXCEPT !.step = step] =
            [step |-> step, loaded |-> state[p].loaded, output |-> output]
    BY <2>3
  <2>5. state' = [state EXCEPT ![p] = [step |-> step, loaded |-> state[p].loaded,
                                       output |-> output]]
    BY <2>2, <2>4, Zenon
  <2>6. state = [q \in DOMAIN state |-> state[q]]
    BY DEF StoreInv, StateOK
  <2> QED
    BY <1>1, <2>5, <2>6 DEF Becomes
<1>3. ASSUME commands[p].name = "commit-policy"
      PROVE  CommitOK(p)'
  <2>1. state[p].step = "computing" /\ CommitOK(p)
    BY <1>1, <1>3 DEF CommitInv, Compute, Ready, At
  <2>2. output = Some(policy_commitment(state[p].loaded[1], state[p].loaded[2]))
    BY <1>3 DEF Computed
  <2>3. step \in {"raised", "failed", "done", "creating"}
    <3> HIDE DEF output
    <3> QED
      BY DEF Refusal
  <2> HIDE DEF output, step
  <2> QED
    BY <1>1, <1>2, <2>1, <2>2, <2>3 DEF CommitOK, Saw, Becomes
<1> HIDE DEF output, step
<1> QED
  BY <1>1, <1>2, <1>3, TurnKeepsCommit

LEMMA StepKeepsCommit ==
    ASSUME StoreInv, CommitInv, NEW p, Step(p)
    PROVE  CommitInv'
<1>1. CASE ReadFile(p)
  BY <1>1, ReadKeepsCommit
<1>2. CASE CannotRead(p)
  BY <1>2, LoadingEndsIn, GoesKeepsCommit
<1>3. CASE LookForSalt(p)
  <2>1. p \in DOMAIN state /\ Len(state[p].loaded) = 1
    BY <1>3, CommandKnown DEF LookForSalt, ReadAll, At, CommandOK
  <2> QED
    BY <1>3, <2>1, GoesKeepsCommit DEF LookForSalt
<1>4. CASE ReadSalt(p)
  <2>1. /\ p \in DOMAIN state
        /\ state[p].step \in {"reading salt", "filling salt"}
        /\ UNCHANGED commands
    BY <1>4 DEF ReadSalt, At
  <2>2. commands[p].name = "commit-policy" => Len(state[p].loaded) = 1
    BY <2>1 DEF CommitInv, CommitOK
  <2>3. CASE Goes(p, "failed") /\ UNCHANGED seen
    BY <2>1, <2>3, GoesKeepsCommit
  <2>4. CASE \E file \in disk[commands[p].salt] : SaltLoaded(p, file.content)
    <3>1. PICK drawn : SaltLoaded(p, drawn)
      BY <2>4
    <3> QED
      BY <2>1, <2>2, <3>1, SaltKeepsCommit
  <2> QED
    BY <1>4, <2>1, <2>3, <2>4, LoadsTo DEF ReadSalt, SaltLoaded
<1>5. CASE CreateSalt(p)
  <2>1. /\ p \in DOMAIN state
        /\ state[p].step = "creating salt"
        /\ UNCHANGED <<commands, seen>>
        /\ Goes(p, "filling salt") \/ Goes(p, "failed")
    BY <1>5 DEF CreateSalt, At
  <2>2. Len(state[p].loaded) = 1
    BY <2>1, CommandKnown DEF StepOK, CommitInv, CommitOK
  <2> QED
    BY <2>1, <2>2, GoesKeepsCommit
<1>6. CASE FillSalt(p)
  <2> DEFINE salt == [salt |-> p]
  <2>1. /\ p \in DOMAIN state
        /\ state[p].step \in {"reading salt", "filling salt"}
        /\ UNCHANGED commands
    BY <1>6 DEF FillSalt, At
  <2>2. commands[p].name = "commit-policy" => Len(state[p].loaded) = 1
    BY <2>1 DEF CommitInv, CommitOK
  <2>3. SaltLoaded(p, salt)
    BY <1>6, <2>1, LoadsTo DEF FillSalt, SaltLoaded
  <2> HIDE DEF salt
  <2> QED
    BY <2>1, <2>3, <2>2, SaltKeepsCommit
<1>7. CASE SaltFails(p)
  BY <1>7, GoesKeepsCommit DEF SaltFails, At
<1>8. CASE Compute(p)
  BY <1>8, ComputeKeepsCommit
<1>9. CASE CreateFile(p)
  BY <1>9, GoesKeepsCommit DEF CreateFile, At
<1>10. CASE FillFile(p)
  <2>1. seen \subseteq seen'
    BY <1>10 DEF FillFile
  <2> QED
    BY <1>10, <2>1, GoesKeepsCommit DEF FillFile, At
<1>11. CASE FileFails(p)
  BY <1>11, GoesKeepsCommit DEF FileFails, At
<1> QED
  BY <1>1, <1>2, <1>3, <1>4, <1>5, <1>6, <1>7, <1>8, <1>9, <1>10, <1>11,
     Zenon DEF Step

LEMMA NextKeepsCommit == StoreInv /\ CommitInv /\ [Next]_vars => CommitInv'
<1> SUFFICES ASSUME StoreInv, CommitInv, [Next]_vars
             PROVE  CommitInv'
  OBVIOUS
<1>1. ASSUME NEW p \in 1 .. MaxCommands, Step(p)
      PROVE  CommitInv'
  BY <1>1, StepKeepsCommit
<1>2. ASSUME NEW p \in 1 .. MaxCommands, Crash(p)
      PROVE  CommitInv'
  BY <1>2, GoesKeepsCommit DEF Crash
<1>3. CASE Post \/ UNCHANGED vars
  <2>1. UNCHANGED <<commands, state, seen>>
    BY <1>3 DEF Post, vars
  <2> QED
    BY <2>1 DEF CommitInv, CommitOK, Saw
<1> QED
  BY <1>1, <1>2, <1>3 DEF Next

LEMMA SeenCommitmentsOpen == StoreInv /\ CommitInv => CommitmentsOpen
<1> SUFFICES ASSUME StoreInv, CommitInv, NEW p \in DOMAIN state,
                    commands[p].name = "commit-policy", state[p].step = "done"
             PROVE  \E salt \in disk[commands[p].salt],
                       policy \in disk[commands[p].reads[1]] :
                        /\ salt.whole
                        /\ state[p].output =
                               Some(policy_commitment(policy.content, salt.content))
  BY DEF CommitmentsOpen
<1> DEFINE policy == state[p].loaded[1]
           salt == state[p].loaded[2]
<1>1. /\ <<commands[p].reads[1], policy>> \in seen
      /\ <<commands[p].salt, salt>> \in seen
      /\ state[p].output = Some(policy_commitment(policy, salt))
  <2>1. CommitOK(p)
    BY DEF CommitInv
  <2>2. state[p].loaded # <<>>
    BY <2>1 DEF CommitOK
  <2> QED
    BY <2>1, <2>2 DEF CommitOK, Saw
<1> HIDE DEF policy, salt
<1>2. /\ disk[commands[p].reads[1]] = Some(Whole(policy))
      /\ disk[commands[p].salt] = Some(Whole(salt))
  BY <1>1 DEF StoreInv, SeenStays
<1>3. \A content : /\ Whole(content) \in Some(Whole(content))
                   /\ Whole(content).whole
                   /\ Whole(content).content = content
  BY DEF Some, Whole
<1> QED
  BY <1>1, <1>2, <1>3

(***************************************************************************)
(* A published commitment is over the policy and the whole salt on disk,   *)
(* whatever commands raced for the salt (create_policy_commitment looks    *)
(* first and creates exclusively later, core.py:308-312), were killed      *)
(* half way or are tried again.                                            *)
(***************************************************************************)
THEOREM CommitmentsAlwaysOpen == Spec => []CommitmentsOpen
<1>1. StoreInv /\ CommitInv /\ [Next]_vars => StoreInv' /\ CommitInv'
  BY NextKeepsStore, NextKeepsCommit
<1>2. Init => StoreInv /\ CommitInv
  BY InitStore, InitCommit
<1> QED
  BY <1>1, <1>2, SeenCommitmentsOpen, PTL DEF Spec
=============================================================================
