------------------------- MODULE SkillInstall_proofs -------------------------
(***************************************************************************)
(* What the installation of a skill promises, for any number of commands,  *)
(* files, targets and edits.                                               *)
(*                                                                         *)
(* A backup counts only once it is settled: while its command is still     *)
(* filling or verifying it, the command may yet remove it.  A directory is *)
(* Secure if a settled backup holds it.  The invariant says that whoever   *)
(* replaces the destination has made the user's last version Secure first  *)
(* (SafeWindow), that it is in the destination until then (Recovering),    *)
(* and that a backup being filled follows the destination (Filling).       *)
(* Local(c) is the same for what an undisturbed command found, and ties    *)
(* what it reports to what it leaves.                                      *)
(***************************************************************************)
EXTENDS SkillInstall, FiniteSetTheorems, TLAPS

Filler == {"backing_up", "verifying"}

\* From the verified backup, or the missing destination, to the end.
Replacing == {"clearing", "making", "copying", "wiping", "restoring"}

SettledIn(st, place, s) == \A c \in Commands : st[c] = s => place[c] \notin Filler

SecureIn(sh, bk, st, place, original) ==
    \/ sh
    \/ RegularFiles(original) = {}
    \/ \E s \in Stamps : SettledIn(st, place, s) /\ Holds(bk[s], original)

Secure(original) == SecureIn(shared, backups, stamp, pc, original)

\* The files of `original` that c is done with are in its backup.
Filled(c, original) ==
    \A f \in RegularFiles(original) \ left[c] :
        backups[stamp[c]].files[f] = original.files[f]

\* Two commands have two backups.
Apart ==
    ~shared =>
        \A c \in Commands : stamp[c] # "none" =>
            /\ backups[stamp[c]].there
            /\ \A d \in Commands \ {c} : stamp[d] # stamp[c]

Recovering == raced \/ Secure(saved) \/ Holds(dest, saved)

SafeWindow ==
    \A c \in Commands : pc[c] \in Replacing => raced \/ Secure(saved)

Filling ==
    \A c \in Commands : pc[c] \in Filler =>
        raced \/ Secure(saved) \/ Filled(c, saved)

\* What there is of the new copy with `files` yet to be copied.
Underway(place, dir, files) ==
    /\ place = "making" => dir = Absent
    /\ place = "copying" =>
         /\ dir.there
         /\ \A f \in Files :
              dir.files[f] = IF f \in files THEN "none" ELSE Source.files[f]

Undisturbed(c) ==
    /\ pc[c] \in Filler \cup {"checking"} => dest = base[c]
    /\ pc[c] \in Filler => shared \/ Filled(c, base[c])
    /\ pc[c] \in Replacing => Secure(base[c])
    /\ Underway(pc[c], dest, left[c])

Reported(c) ==
    pc[c] \in {"idle", "looking"} =>
        /\ status[c] \in {"AlreadyPresent", "Installed"} => dest = Source
        /\ Secure(base[c]) \/ Holds(dest, base[c])

Local(c) == ~disturbed[c] => Undisturbed(c) /\ Reported(c)

IInv ==
    /\ TypeOK
    /\ Apart
    /\ Recovering
    /\ SafeWindow
    /\ Filling
    /\ \A c \in Commands : Local(c)

-----------------------------------------------------------------------------
(* Directories. *)

LEMMA DirShape ==
    ASSUME NEW dir \in Dir
    PROVE  /\ dir.there \in BOOLEAN
           /\ dir.files \in [Files -> Entry]
           /\ dir = [there |-> dir.there, files |-> dir.files]
           /\ ~dir.there => dir = Absent
PROOF
<1>1. CASE dir = Absent
  BY <1>1 DEF Absent, Entry
<1>2. CASE dir \in [there : {TRUE}, files : [Files -> Entry]]
  BY <1>2
<1> QED
  BY <1>1, <1>2 DEF Dir

LEMMA AbsentEmpty ==
    /\ Absent \in Dir
    /\ RegularFiles(Absent) = {}
    /\ ~Absent.there
    /\ \A original : Holds(Absent, original) => RegularFiles(original) = {}
PROOF
<1>1. Absent \in Dir /\ ~Absent.there
  BY DEF Dir, Absent
<1>2. \A f \in Files : Absent.files[f] = "none"
  BY DEF Absent
<1>3. "none" \notin Content
  BY DEF Content
<1>4. RegularFiles(Absent) = {}
  BY <1>2, <1>3 DEF RegularFiles
<1>5. ASSUME NEW original, Holds(Absent, original) PROVE RegularFiles(original) = {}
  <2>1. ASSUME NEW f \in RegularFiles(original) PROVE FALSE
    <3>1. f \in Files /\ original.files[f] \in Content
      BY <2>1 DEF RegularFiles
    <3>2. Absent.files[f] = original.files[f]
      BY <1>5, <2>1 DEF Holds
    <3> QED BY <1>2, <1>3, <3>1, <3>2
  <2> QED BY <2>1
<1> QED
  BY <1>1, <1>4, <1>5

LEMMA MadeDir ==
    ASSUME NEW dir \in Dir
    PROVE  Made(dir) \in Dir /\ Made(dir).there /\ Made(dir).files = dir.files
PROOF
<1>1. Made(dir) = [there |-> TRUE, files |-> dir.files]
  BY DirShape DEF Made
<1>2. dir.files \in [Files -> Entry]
  BY DirShape
<1>3. Made(dir) \in [there : {TRUE}, files : [Files -> Entry]]
  BY <1>1, <1>2
<1>4. Made(dir).there /\ Made(dir).files = dir.files
  BY <1>1
<1> QED
  BY <1>3, <1>4 DEF Dir

LEMMA WithDir ==
    ASSUME NEW dir \in Dir, NEW f \in Files, NEW content \in Entry
    PROVE  /\ With(dir, f, content) \in Dir
           /\ With(dir, f, content).there
           /\ With(dir, f, content).files[f] = content
           /\ \A g \in Files \ {f} : With(dir, f, content).files[g] = dir.files[g]
PROOF
<1>1. dir.files \in [Files -> Entry]
  BY DirShape
<1>2. [dir.files EXCEPT ![f] = content] \in [Files -> Entry]
  BY <1>1
<1>3. /\ With(dir, f, content).there
      /\ With(dir, f, content).files = [dir.files EXCEPT ![f] = content]
  BY DEF With
<1>4. With(dir, f, content) \in Dir
  BY <1>2 DEF With, Dir
<1> QED
  BY <1>1, <1>3, <1>4

LEMMA WithoutDir ==
    ASSUME NEW dir \in Dir, NEW f \in Files
    PROVE  Without(dir, f) \in Dir
PROOF
<1>0. dir.files \in [Files -> Entry] /\ "none" \in Entry
  BY DirShape DEF Entry
<1>1. Without(dir, f) = [there |-> dir.there, files |-> [dir.files EXCEPT ![f] = "none"]]
  BY DirShape DEF Without
<1>2. CASE dir.there
  BY <1>0, <1>1, <1>2, DirShape DEF Dir
<1>3. CASE ~dir.there
  <2>1. dir = Absent
    BY <1>3, DirShape
  <2>2. [dir.files EXCEPT ![f] = "none"] = dir.files
    BY <2>1 DEF Absent
  <2>3. Without(dir, f) = dir
    BY <1>1, <2>2, DirShape
  <2> QED BY <2>3
<1> QED
  BY <1>2, <1>3, DirShape

LEMMA CopiedDir ==
    ASSUME NEW from \in Dir, NEW to \in Dir, NEW f \in Files
    PROVE  /\ Copied(from, to, f) \in Dir
           /\ to.there => Copied(from, to, f).there
           /\ f \in RegularFiles(from) => Copied(from, to, f).files[f] = from.files[f]
           /\ \A g \in Files \ {f} : Copied(from, to, f).files[g] = to.files[g]
PROOF
<1>1. CASE f \in RegularFiles(from)
  <2>1. from.files[f] \in Entry
    BY <1>1 DEF RegularFiles, Entry
  <2>2. Copied(from, to, f) = With(to, f, from.files[f])
    BY <1>1 DEF Copied
  <2> QED BY <2>1, <2>2, WithDir
<1>2. CASE f \notin RegularFiles(from)
  BY <1>2 DEF Copied
<1> QED
  BY <1>1, <1>2

LEMMA SourceDir ==
    /\ Source \in Dir
    /\ \A f \in Files : Source.files[f] = IF f \in Shipped THEN "new" ELSE "none"
    /\ RegularFiles(Source) = Shipped
    /\ \A dir \in Dir : Identical(dir) => dir = Source
PROOF
<1>1. "new" \in Content /\ "none" \notin Content
  BY DEF Content
<1>2. /\ Source = [there |-> TRUE, files |-> Source.files] /\ Source.there
      /\ Source.files = [f \in Files |-> IF f \in Shipped THEN "new" ELSE "none"]
  BY DEF Source
<1>3. Source.files \in [Files -> Entry]
  BY <1>1, <1>2 DEF Entry
<1>4. Source \in Dir
  BY <1>2, <1>3 DEF Dir
<1>5. RegularFiles(Source) = Shipped
  BY <1>1, <1>2, SkillAssumption DEF RegularFiles
<1>6. ASSUME NEW dir \in Dir, Identical(dir) PROVE dir = Source
  <2>1. dir.there /\ \A f \in Files : dir.files[f] = Source.files[f]
    BY <1>6 DEF Identical
  <2>2. dir.files = Source.files
    BY <1>3, <2>1, DirShape
  <2>3. dir = [there |-> dir.there, files |-> dir.files] /\ dir.there = TRUE
    BY <2>1, DirShape
  <2> QED BY <1>2, <2>2, <2>3
<1> QED
  BY <1>2, <1>4, <1>5, <1>6

LEMMA HoldsItself == \A dir : Holds(dir, dir)
PROOF
  BY DEF Holds

-----------------------------------------------------------------------------
(* What is secure stays so. *)

\* Settled backups stay settled and as they are; an empty one counts for
\* nothing.
KeepsSettled ==
    shared' \/
    /\ ~shared
    /\ \A s \in Stamps : SettledIn(stamp, pc, s) =>
         \/ backups'[s] = backups[s] /\ SettledIn(stamp', pc', s)
         \/ backups[s] = Absent

LEMMA SecureStays ==
    ASSUME KeepsSettled
    PROVE  \A original :
             Secure(original) => SecureIn(shared', backups', stamp', pc', original)
PROOF
<1> SUFFICES ASSUME NEW original, Secure(original)
             PROVE  SecureIn(shared', backups', stamp', pc', original)
  OBVIOUS
<1>1. CASE shared'
  BY <1>1 DEF SecureIn
<1>2. CASE ~shared'
  <2>1. /\ ~shared
        /\ \A s \in Stamps : SettledIn(stamp, pc, s) =>
             \/ backups'[s] = backups[s] /\ SettledIn(stamp', pc', s)
             \/ backups[s] = Absent
    BY <1>2 DEF KeepsSettled
  <2>2. CASE RegularFiles(original) = {}
    BY <2>2 DEF SecureIn
  <2>3. CASE \E s \in Stamps : SettledIn(stamp, pc, s) /\ Holds(backups[s], original)
    <3>1. PICK s \in Stamps : SettledIn(stamp, pc, s) /\ Holds(backups[s], original)
      BY <2>3
    <3>2. CASE backups[s] = Absent
      <4>1. RegularFiles(original) = {}
        BY <3>1, <3>2, AbsentEmpty
      <4> QED BY <4>1 DEF SecureIn
    <3>3. CASE backups'[s] = backups[s] /\ SettledIn(stamp', pc', s)
      BY <3>1, <3>3 DEF SecureIn
    <3> QED BY <2>1, <3>1, <3>2, <3>3
  <2> QED BY <2>1, <2>2, <2>3 DEF Secure, SecureIn
<1> QED
  BY <1>1, <1>2

-----------------------------------------------------------------------------
(* The frame of a command's step. *)

\* It moves nobody else, changes nobody else's backup, and tells everybody
\* else when it changes the destination, which it does only once the user's
\* last version is secure.
Frame(c) ==
    /\ UNCHANGED <<saved, raced>>
    /\ KeepsSettled
    /\ Apart'
    /\ \A d \in Commands \ {c} :
         /\ pc'[d] = pc[d] /\ stamp'[d] = stamp[d] /\ left'[d] = left[d]
         /\ status'[d] = status[d]
         /\ \/ dest' = dest /\ disturbed'[d] = disturbed[d] /\ base'[d] = base[d]
            \/ disturbed'[d] = TRUE
         /\ stamp[d] # "none" => shared' \/ backups'[stamp[d]] = backups[stamp[d]]
    /\ dest' = dest \/ raced \/ Secure(saved)

\* What c itself has to see to.
Own(c) ==
    /\ pc'[c] \in Replacing => raced \/ SecureIn(shared', backups', stamp', pc', saved)
    /\ pc'[c] \in Filler =>
         \/ raced
         \/ SecureIn(shared', backups', stamp', pc', saved)
         \/ \A f \in RegularFiles(saved) \ left'[c] :
              backups'[stamp'[c]].files[f] = saved.files[f]
    /\ Local(c)'

LEMMA Elsewhere ==
    ASSUME IInv, NEW c \in Commands, Frame(c), NEW d \in Commands \ {c}
    PROVE  Local(d)'
PROOF
<1> SUFFICES ASSUME disturbed'[d] # TRUE, ~disturbed'[d]
             PROVE  Undisturbed(d)' /\ Reported(d)'
  BY DEF Local
<1>1. /\ pc'[d] = pc[d] /\ stamp'[d] = stamp[d] /\ left'[d] = left[d]
      /\ status'[d] = status[d]
      /\ dest' = dest /\ disturbed'[d] = disturbed[d] /\ base'[d] = base[d]
      /\ stamp[d] # "none" => shared' \/ backups'[stamp[d]] = backups[stamp[d]]
  BY DEF Frame
<1>2. Undisturbed(d) /\ Reported(d)
  BY <1>1 DEF IInv, Local
<1>3. Secure(base[d]) => Secure(base[d])'
  <2>1. Secure(base[d]) => SecureIn(shared', backups', stamp', pc', base[d])
    BY SecureStays DEF Frame
  <2> QED BY <1>1, <2>1 DEF Secure
<1>4. shared => shared'
  BY DEF Frame, KeepsSettled
<1>5. Undisturbed(d)'
  <2>1. pc'[d] \in Filler => stamp[d] # "none"
    BY <1>1 DEF IInv, TypeOK, Placed, Filler
  <2>2. pc'[d] \in Filler => shared' \/ Filled(d, base[d])'
    BY <1>1, <1>2, <1>4, <2>1 DEF Undisturbed, Filled
  <2>3. pc'[d] \in Filler \cup {"checking"} => dest' = base'[d]
    BY <1>1, <1>2 DEF Undisturbed, Underway
  <2>4. pc'[d] \in Replacing => Secure(base[d])'
    BY <1>1, <1>2, <1>3 DEF Undisturbed, Underway
  <2>5. Underway(pc'[d], dest', left'[d])
    BY <1>1, <1>2 DEF Undisturbed, Underway
  <2> QED BY <2>2, <2>3, <2>4, <2>5 DEF Undisturbed, Underway
<1>6. Reported(d)'
  <2>1. CASE pc[d] \in {"idle", "looking"}
    <3>1. Secure(base[d])' \/ Holds(dest', base'[d])
      BY <1>1, <1>2, <1>3, <2>1 DEF Reported
    <3>2. status'[d] \in {"AlreadyPresent", "Installed"} => dest' = Source
      BY <1>1, <1>2, <2>1 DEF Reported
    <3> QED BY <3>1, <3>2 DEF Reported
  <2>2. CASE pc[d] \notin {"idle", "looking"}
    BY <1>1, <2>2 DEF Reported
  <2> QED BY <2>1, <2>2
<1> QED
  BY <1>5, <1>6

LEMMA Combine ==
    ASSUME IInv, TypeOK', NEW c \in Commands, Frame(c), Own(c)
    PROVE  IInv'
PROOF
<1>1. /\ saved' = saved /\ raced' = raced
      /\ Apart' /\ (shared => shared')
  BY DEF Frame, KeepsSettled
<1>2. Secure(saved) => Secure(saved)'
  <2>1. Secure(saved) => SecureIn(shared', backups', stamp', pc', saved)
    BY SecureStays DEF Frame
  <2> QED BY <1>1, <2>1 DEF Secure
<1>3. Recovering'
  BY <1>1, <1>2 DEF IInv, Recovering, Frame
<1>4. SafeWindow'
  <2> SUFFICES ASSUME NEW d \in Commands, pc'[d] \in Replacing
               PROVE  raced' \/ Secure(saved)'
    BY DEF SafeWindow
  <2>1. CASE d = c
    BY <1>1, <2>1 DEF Own, Secure
  <2>2. CASE d # c
    <3>1. pc'[d] = pc[d]
      BY <2>2 DEF Frame
    <3> QED BY <1>1, <1>2, <3>1 DEF IInv, SafeWindow
  <2> QED BY <2>1, <2>2
<1>5. Filling'
  <2> SUFFICES ASSUME NEW d \in Commands, pc'[d] \in Filler
               PROVE  raced' \/ Secure(saved)' \/ Filled(d, saved)'
    BY DEF Filling
  <2>1. CASE d = c
    BY <1>1, <2>1 DEF Own, Secure, Filled
  <2>2. CASE d # c
    <3>1. /\ pc'[d] = pc[d] /\ stamp'[d] = stamp[d] /\ left'[d] = left[d]
          /\ stamp[d] # "none" => shared' \/ backups'[stamp[d]] = backups[stamp[d]]
      BY <2>2 DEF Frame
    <3>2. stamp[d] # "none"
      BY <3>1 DEF IInv, TypeOK, Placed, Filler
    <3>3. raced \/ Secure(saved) \/ Filled(d, saved)
      BY <3>1 DEF IInv, Filling
    <3>4. CASE shared'
      BY <3>4 DEF Secure, SecureIn
    <3>5. CASE backups'[stamp[d]] = backups[stamp[d]]
      BY <1>1, <1>2, <3>1, <3>3, <3>5 DEF Filled
    <3> QED BY <3>1, <3>2, <3>4, <3>5
  <2> QED BY <2>1, <2>2
<1>6. ASSUME NEW d \in Commands PROVE Local(d)'
  BY Elsewhere DEF Own
<1> QED
  BY <1>1, <1>3, <1>4, <1>5, <1>6 DEF IInv

-----------------------------------------------------------------------------
(* The small steps every action is made of. *)

\* c moves, to a place it may be in; nobody else does.
Moves(c) ==
    /\ pc' \in [Commands -> Phase]
    /\ left' \in [Commands -> SUBSET Files]
    /\ todo' \in [Commands -> 0 .. MaxVisits]
    /\ stamp' \in [Commands -> Stamps \cup {"none"}]
    /\ status' \in [Commands -> Status]
    /\ Placed(c)'
    /\ \A d \in Commands \ {c} :
         /\ pc'[d] = pc[d] /\ stamp'[d] = stamp[d] /\ left'[d] = left[d]
         /\ status'[d] = status[d] /\ todo'[d] = todo[d]

\* Whoever sees the destination change by another's hand is told.
Sees(c) ==
    /\ dest' \in Dir
    /\ disturbed' \in [Commands -> BOOLEAN]
    /\ base' \in [Commands -> Dir]
    /\ \A d \in Commands \ {c} :
         \/ dest' = dest /\ disturbed'[d] = disturbed[d] /\ base'[d] = base[d]
         \/ disturbed'[d] = TRUE

Remembers(c) == disturbed'[c] = disturbed[c] /\ base'[c] = base[c]

LEMMA GotoMoves ==
    ASSUME TypeOK, NEW c \in Commands, NEW phase \in Phase \ {"idle"},
           NEW files \in SUBSET Files, Goto(c, phase, files), pc[c] # "idle",
           phase = "verifying" => files = {},
           phase \in {"backing_up", "verifying", "clearing", "wiping", "restoring"} =>
             stamp[c] # "none"
    PROVE  /\ Moves(c)
           /\ pc'[c] = phase /\ left'[c] = files
           /\ stamp' = stamp /\ status' = status
PROOF
<1>1. /\ pc' = [pc EXCEPT ![c] = phase]
      /\ left' = [left EXCEPT ![c] = files]
      /\ todo' = todo /\ status' = status /\ stamp' = stamp
  BY DEF Goto
<1>2. pc'[c] = phase /\ left'[c] = files
  BY <1>1 DEF TypeOK
<1>3. todo[c] > 0
  BY DEF TypeOK, Placed
<1>4. Placed(c)'
  BY <1>1, <1>2, <1>3 DEF Placed
<1> QED
  BY <1>1, <1>2, <1>4 DEF TypeOK, Moves

LEMMA ReportMoves ==
    ASSUME TypeOK, NEW c \in Commands, NEW how \in Status, Report(c, how),
           pc[c] # "idle"
    PROVE  /\ Moves(c)
           /\ pc'[c] \in {"idle", "looking"}
           /\ stamp'[c] = "none" /\ status'[c] = how
PROOF
<1>1. /\ status' = [status EXCEPT ![c] = how]
      /\ todo' = [todo EXCEPT ![c] = todo[c] - 1]
      /\ pc' = [pc EXCEPT ![c] = IF todo[c] > 1 THEN "looking" ELSE "idle"]
      /\ left' = [left EXCEPT ![c] = {}]
      /\ stamp' = [stamp EXCEPT ![c] = "none"]
  BY DEF Report
<1>2. todo[c] \in 1 .. MaxVisits
  BY BoundsAssumption DEF TypeOK, Placed
<1>3. todo[c] - 1 \in 0 .. MaxVisits
  BY <1>2, BoundsAssumption
<1>4. /\ pc'[c] = (IF todo[c] > 1 THEN "looking" ELSE "idle")
      /\ todo'[c] = todo[c] - 1 /\ stamp'[c] = "none" /\ status'[c] = how
  BY <1>1 DEF TypeOK
<1>5. Placed(c)'
  BY <1>2, <1>4 DEF Placed
<1>6. /\ "looking" \in Phase /\ "idle" \in Phase
  BY DEF Phase
<1>7. /\ pc' \in [Commands -> Phase]
      /\ left' \in [Commands -> SUBSET Files]
      /\ todo' \in [Commands -> 0 .. MaxVisits]
      /\ stamp' \in [Commands -> Stamps \cup {"none"}]
      /\ status' \in [Commands -> Status]
  BY <1>1, <1>3, <1>6 DEF TypeOK
<1>8. \A d \in Commands \ {c} :
         /\ pc'[d] = pc[d] /\ stamp'[d] = stamp[d] /\ left'[d] = left[d]
         /\ status'[d] = status[d] /\ todo'[d] = todo[d]
  BY <1>1 DEF TypeOK
<1> QED
  BY <1>4, <1>5, <1>7, <1>8 DEF Moves

LEMMA ChangeSees ==
    ASSUME TypeOK, NEW c \in Commands, NEW dir \in Dir, Change(c, dir)
    PROVE  Sees(c) /\ Remembers(c) /\ dest' = dir
PROOF
  BY AbsentEmpty DEF TypeOK, Change, Sees, Remembers

LEMMA UntouchedSees ==
    ASSUME TypeOK, NEW c \in Commands, Untouched
    PROVE  Sees(c) /\ Remembers(c) /\ dest' = dest
PROOF
  BY DEF TypeOK, Untouched, Sees, Remembers

\* Most steps: they change at most the backup being filled, and the
\* destination only while they replace it.
Ordinary(c) ==
    /\ Moves(c) /\ Sees(c)
    /\ visits' \in 0 .. MaxVisits
    /\ UNCHANGED <<shared, saves, saved, raced>>
    /\ backups' \in [Stamps -> Dir]
    /\ \A s \in Stamps :
         backups'[s] # backups[s] => pc[c] \in Filler /\ s = stamp[c]
    /\ pc'[c] \in Filler => pc[c] \in Filler
    /\ \/ stamp'[c] = "none"
       \/ /\ stamp'[c] = stamp[c]
          /\ ~shared => backups'[stamp[c]].there
    /\ dest' = dest \/ raced \/ Secure(saved)

LEMMA OrdinaryType ==
    ASSUME IInv, NEW c \in Commands, Ordinary(c)
    PROVE  TypeOK'
PROOF
<1>1. ASSUME NEW d \in Commands PROVE Placed(d)'
  <2>1. CASE d = c
    BY <2>1 DEF Ordinary, Moves
  <2>2. CASE d # c
    <3>1. /\ pc'[d] = pc[d] /\ stamp'[d] = stamp[d] /\ left'[d] = left[d]
          /\ todo'[d] = todo[d]
      BY <2>2 DEF Ordinary, Moves
    <3>2. Placed(d)
      BY DEF IInv, TypeOK
    <3> QED BY <3>1, <3>2 DEF Placed
  <2> QED BY <2>1, <2>2
<1>2. /\ dest' \in Dir /\ backups' \in [Stamps -> Dir]
      /\ pc' \in [Commands -> Phase]
      /\ todo' \in [Commands -> 0 .. MaxVisits]
      /\ stamp' \in [Commands -> Stamps \cup {"none"}]
      /\ left' \in [Commands -> SUBSET Files]
      /\ status' \in [Commands -> Status]
      /\ base' \in [Commands -> Dir]
      /\ disturbed' \in [Commands -> BOOLEAN]
  BY DEF Ordinary, Moves, Sees
<1>3. /\ visits' \in 0 .. MaxVisits /\ saves' \in 0 .. MaxSaves
      /\ saved' \in Dir /\ raced' \in BOOLEAN /\ shared' \in BOOLEAN
  BY DEF Ordinary, IInv, TypeOK
<1> QED
  BY <1>1, <1>2, <1>3 DEF TypeOK

LEMMA OrdinaryFrame ==
    ASSUME IInv, NEW c \in Commands, Ordinary(c)
    PROVE  Frame(c)
PROOF
<1>1. \A d \in Commands \ {c} :
         /\ pc'[d] = pc[d] /\ stamp'[d] = stamp[d] /\ left'[d] = left[d]
         /\ status'[d] = status[d]
  BY DEF Ordinary, Moves
<1>2. /\ saved' = saved /\ raced' = raced /\ shared' = shared
      /\ dest' = dest \/ raced \/ Secure(saved)
  BY DEF Ordinary
<1>3. \A d \in Commands \ {c} :
         \/ dest' = dest /\ disturbed'[d] = disturbed[d] /\ base'[d] = base[d]
         \/ disturbed'[d] = TRUE
  BY DEF Ordinary, Sees
<1>4. \A s \in Stamps :
         backups'[s] # backups[s] => pc[c] \in Filler /\ s = stamp[c]
  BY DEF Ordinary
<1>5. /\ pc'[c] \in Filler => pc[c] \in Filler
      /\ \/ stamp'[c] = "none"
         \/ stamp'[c] = stamp[c] /\ (~shared => backups'[stamp[c]].there)
  BY DEF Ordinary
<1>6. \A d \in Commands : stamp[d] \in Stamps \cup {"none"}
  BY DEF IInv, TypeOK
<1>7. shared \in BOOLEAN
  BY DEF IInv, TypeOK
<1>8. KeepsSettled
  <2> SUFFICES ASSUME ~shared, NEW s \in Stamps, SettledIn(stamp, pc, s)
               PROVE  backups'[s] = backups[s] /\ SettledIn(stamp', pc', s)
    BY <1>2, <1>7 DEF KeepsSettled
  <2>1. stamp[c] = s => pc[c] \notin Filler
    BY DEF SettledIn
  <2>2. backups'[s] = backups[s]
    BY <1>4, <2>1
  <2>3. ASSUME NEW d \in Commands, stamp'[d] = s PROVE pc'[d] \notin Filler
    <3>1. CASE d = c
      <4>1. stamp[c] = s
        BY <1>5, <2>3, <3>1, StampsAssumption
      <4> QED BY <1>5, <2>1, <3>1, <4>1
    <3>2. CASE d # c
      BY <1>1, <2>3, <3>2 DEF SettledIn
    <3> QED BY <3>1, <3>2
  <2> QED BY <2>2, <2>3 DEF SettledIn
<1>9. ASSUME NEW d \in Commands \ {c}, stamp[d] # "none", ~shared
      PROVE  backups'[stamp[d]] = backups[stamp[d]]
  <2>1. stamp[c] # stamp[d]
    BY <1>9 DEF IInv, Apart
  <2> QED BY <1>4, <1>6, <1>9, <2>1
<1>10. Apart'
  <2> SUFFICES ASSUME ~shared, NEW d \in Commands, stamp'[d] # "none"
               PROVE  /\ backups'[stamp'[d]].there
                      /\ \A e \in Commands \ {d} : stamp'[e] # stamp'[d]
    BY <1>2 DEF Apart
  <2>1. stamp'[d] = stamp[d]
    BY <1>1, <1>5
  <2>2. /\ backups[stamp[d]].there
        /\ \A e \in Commands \ {d} : stamp[e] # stamp[d]
    BY <2>1 DEF IInv, Apart
  <2>3. backups'[stamp'[d]].there
    <3>1. CASE d = c
      BY <1>5, <2>1, <3>1
    <3>2. CASE d # c
      BY <1>9, <2>1, <2>2, <3>2
    <3> QED BY <3>1, <3>2
  <2>4. ASSUME NEW e \in Commands \ {d} PROVE stamp'[e] # stamp'[d]
    <3>1. stamp'[e] = stamp[e] \/ stamp'[e] = "none"
      BY <1>1, <1>5
    <3> QED BY <2>1, <2>2, <3>1
  <2> QED BY <2>3, <2>4
<1> QED
  BY <1>1, <1>2, <1>3, <1>8, <1>9, <1>10 DEF Frame

\* So an ordinary step keeps the invariant if it sees to its own part.
LEMMA OrdinaryInv ==
    ASSUME IInv, NEW c \in Commands, Ordinary(c), Own(c)
    PROVE  IInv'
PROOF
  BY OrdinaryType, OrdinaryFrame, Combine

LEMMA SteadyOrdinary ==
    ASSUME IInv, NEW c \in Commands, Moves(c), Sees(c),
           UNCHANGED <<backups, shared, user>>, visits' \in 0 .. MaxVisits,
           stamp'[c] = stamp[c] \/ stamp'[c] = "none",
           pc'[c] \in Filler => pc[c] \in Filler,
           dest' = dest \/ pc[c] \in Replacing
    PROVE  Ordinary(c)
PROOF
<1>1. dest' = dest \/ raced \/ Secure(saved)
  BY DEF IInv, SafeWindow
<1>2. CASE stamp[c] = "none"
  BY <1>1, <1>2 DEF Ordinary, user, IInv, TypeOK
<1>3. CASE stamp[c] # "none"
  <2>1. ~shared => backups[stamp[c]].there
    BY <1>3 DEF IInv, Apart
  <2> QED BY <1>1, <2>1 DEF Ordinary, user, IInv, TypeOK
<1> QED
  BY <1>2, <1>3

-----------------------------------------------------------------------------
(* What a command sees to in each part of its way. *)

\* While it replaces the destination, everything needed is secure already.
LEMMA Replaces ==
    ASSUME IInv, NEW c \in Commands, Ordinary(c), Remembers(c),
           pc[c] \in Replacing, pc'[c] \in Replacing,
           ~disturbed[c] => Underway(pc'[c], dest', left'[c])
    PROVE  IInv'
PROOF
<1>1. \A original :
        Secure(original) => SecureIn(shared', backups', stamp', pc', original)
  BY OrdinaryFrame, SecureStays DEF Frame
<1>2. raced \/ SecureIn(shared', backups', stamp', pc', saved)
  BY <1>1 DEF IInv, SafeWindow
<1>3. pc'[c] \notin Filler /\ pc'[c] \notin {"idle", "looking", "checking"}
  BY DEF Replacing, Filler
<1>4. Local(c)'
  <2> SUFFICES ASSUME ~disturbed'[c] PROVE Undisturbed(c)' /\ Reported(c)'
    BY DEF Local
  <2>1. ~disturbed[c] /\ base'[c] = base[c]
    BY DEF Remembers
  <2>2. Secure(base[c])
    BY <2>1 DEF IInv, Local, Undisturbed
  <2>3. SecureIn(shared', backups', stamp', pc', base[c])
    BY <1>1, <2>2
  <2>4. Secure(base[c])'
    BY <2>1, <2>3 DEF Secure
  <2>5. Undisturbed(c)'
    BY <1>3, <2>1, <2>4 DEF Undisturbed, Underway
  <2>6. Reported(c)'
    BY <1>3 DEF Reported
  <2> QED BY <2>5, <2>6
<1>5. Own(c)
  BY <1>2, <1>3, <1>4 DEF Own
<1> QED
  BY <1>5, OrdinaryInv

\* It may then stop anywhere.
LEMMA StopsReplacing ==
    ASSUME IInv, NEW c \in Commands, Ordinary(c), Remembers(c),
           pc[c] \in Replacing, pc'[c] \in {"idle", "looking"},
           ~disturbed[c] /\ status'[c] \in {"AlreadyPresent", "Installed"} =>
             dest' = Source
    PROVE  IInv'
PROOF
<1>1. \A original :
        Secure(original) => SecureIn(shared', backups', stamp', pc', original)
  BY OrdinaryFrame, SecureStays DEF Frame
<1>2. pc'[c] \notin Filler /\ pc'[c] \notin Replacing /\ pc'[c] # "checking"
      /\ pc'[c] \notin {"making", "copying"}
  BY DEF Replacing, Filler
<1>3. Local(c)'
  <2> SUFFICES ASSUME ~disturbed'[c] PROVE Undisturbed(c)' /\ Reported(c)'
    BY DEF Local
  <2>1. ~disturbed[c] /\ base'[c] = base[c]
    BY DEF Remembers
  <2>2. Secure(base[c])
    BY <2>1 DEF IInv, Local, Undisturbed
  <2>3. SecureIn(shared', backups', stamp', pc', base[c])
    BY <1>1, <2>2
  <2>4. Secure(base[c])'
    BY <2>1, <2>3 DEF Secure
  <2>5. Undisturbed(c)'
    BY <1>2 DEF Undisturbed, Underway
  <2>6. Reported(c)'
    BY <2>1, <2>4 DEF Reported
  <2> QED BY <2>5, <2>6
<1>4. Own(c)
  BY <1>2, <1>3 DEF Own
<1> QED
  BY <1>4, OrdinaryInv

\* Before that, it may stop and leave the destination as it was.
LEMMA StopsBefore ==
    ASSUME IInv, NEW c \in Commands, Ordinary(c), Remembers(c), dest' = dest,
           pc[c] \in Filler \cup {"checking"}, pc'[c] \in {"idle", "looking"},
           status'[c] \in {"AlreadyPresent", "Installed"} => dest = Source
    PROVE  IInv'
PROOF
<1>1. pc'[c] \notin Filler /\ pc'[c] \notin Replacing /\ pc'[c] # "checking"
      /\ pc'[c] \notin {"making", "copying"}
  BY DEF Replacing, Filler
<1>2. Local(c)'
  <2> SUFFICES ASSUME ~disturbed'[c] PROVE Undisturbed(c)' /\ Reported(c)'
    BY DEF Local
  <2>1. ~disturbed[c] /\ base'[c] = base[c]
    BY DEF Remembers
  <2>2. dest = base[c]
    BY <2>1 DEF IInv, Local, Undisturbed
  <2>3. Holds(dest', base'[c])
    BY <2>1, <2>2, HoldsItself
  <2>4. Undisturbed(c)'
    BY <1>1 DEF Undisturbed, Underway
  <2>5. Reported(c)'
    BY <2>3 DEF Reported
  <2> QED BY <2>4, <2>5
<1>3. Own(c)
  BY <1>1, <1>2 DEF Own
<1> QED
  BY <1>3, OrdinaryInv

-----------------------------------------------------------------------------
(* One lemma for each action. *)

\* Between two targets it remembers what the last one left.
LEMMA Waits ==
    ASSUME IInv, NEW c \in Commands, Ordinary(c), Remembers(c), dest' = dest,
           pc[c] \in {"idle", "looking"}, pc'[c] \in {"idle", "looking"},
           status'[c] \notin {"AlreadyPresent", "Installed"}
    PROVE  IInv'
PROOF
<1>1. \A original :
        Secure(original) => SecureIn(shared', backups', stamp', pc', original)
  BY OrdinaryFrame, SecureStays DEF Frame
<1>2. pc'[c] \notin Filler /\ pc'[c] \notin Replacing /\ pc'[c] # "checking"
      /\ pc'[c] \notin {"making", "copying"}
  BY DEF Replacing, Filler
<1>3. Local(c)'
  <2> SUFFICES ASSUME ~disturbed'[c] PROVE Undisturbed(c)' /\ Reported(c)'
    BY DEF Local
  <2>1. ~disturbed[c] /\ base'[c] = base[c]
    BY DEF Remembers
  <2>2. Secure(base[c]) \/ Holds(dest, base[c])
    BY <2>1 DEF IInv, Local, Reported
  <2>3. Secure(base[c])' \/ Holds(dest', base'[c])
    BY <1>1, <2>1, <2>2 DEF Secure
  <2>4. Undisturbed(c)'
    BY <1>2 DEF Undisturbed, Underway
  <2>5. Reported(c)'
    BY <2>3 DEF Reported
  <2> QED BY <2>4, <2>5
<1>4. Own(c)
  BY <1>2, <1>3 DEF Own
<1> QED
  BY <1>4, OrdinaryInv

LEMMA ServedCount ==
    ASSUME NEW yes \in BOOLEAN,
           NEW mcp \in [Targets -> {"Installed", "Skipped", "Declined", "Error"}]
    PROVE  Cardinality(Served(yes, mcp)) \in Nat
PROOF
<1>1. Served(yes, mcp) \subseteq Targets
  BY DEF Served
<1> QED
  BY <1>1, TargetsAssumption, FS_Subset, FS_CardinalityType

LEMMA StartInv ==
    ASSUME IInv, NEW c \in Commands, Start(c)
    PROVE  IInv'
PROOF
<1>1. /\ pc[c] = "idle"
      /\ pc' = [pc EXCEPT ![c] = "looking"]
      /\ status' = [status EXCEPT ![c] = "none"]
      /\ UNCHANGED <<dest, backups, stamp, left, shared, base, disturbed, user>>
  BY DEF Start
<1>2. PICK n \in Nat : /\ n > 0
                       /\ visits + n <= MaxVisits
                       /\ visits' = visits + n
                       /\ todo' = [todo EXCEPT ![c] = n]
  <2>1. PICK yes \in BOOLEAN,
             mcp \in [Targets -> {"Installed", "Skipped", "Declined", "Error"}] :
          LET n == Cardinality(Served(yes, mcp)) IN
          /\ n > 0
          /\ visits + n <= MaxVisits
          /\ visits' = visits + n
          /\ todo' = [todo EXCEPT ![c] = n]
    BY DEF Start
  <2> QED BY <2>1, ServedCount
<1>3. visits \in 0 .. MaxVisits /\ MaxVisits \in Nat
  BY BoundsAssumption DEF IInv, TypeOK
<1>4. n \in 0 .. MaxVisits /\ visits' \in 0 .. MaxVisits
  BY <1>2, <1>3
<1>5. "looking" \in Phase /\ "none" \in Status
  BY DEF Phase, Status
<1>6. pc'[c] = "looking" /\ todo'[c] = n /\ status'[c] = "none"
  BY <1>1, <1>2 DEF IInv, TypeOK
<1>7. Moves(c)
  <2>1. Placed(c)'
    BY <1>2, <1>6 DEF Placed
  <2> QED BY <1>1, <1>2, <1>4, <1>5, <2>1 DEF IInv, TypeOK, Moves
<1>8. Sees(c) /\ Remembers(c) /\ dest' = dest
  BY <1>1, UntouchedSees DEF Untouched, IInv
<1>9. Ordinary(c)
  BY <1>1, <1>4, <1>6, <1>7, <1>8, SteadyOrdinary DEF Filler
<1> QED
  BY <1>1, <1>6, <1>8, <1>9, Waits

LEMMA LookInv ==
    ASSUME IInv, NEW c \in Commands, Look(c)
    PROVE  IInv'
PROOF
<1>1. /\ pc[c] = "looking"
      /\ base' = [base EXCEPT ![c] = dest]
      /\ disturbed' = [disturbed EXCEPT ![c] = FALSE]
      /\ UNCHANGED <<dest, backups, visits, shared, user>>
  BY DEF Look
<1>2. TypeOK
  BY DEF IInv
<1>3. Sees(c) /\ dest' = dest /\ base'[c] = dest
  BY <1>1, <1>2 DEF TypeOK, Sees
<1>4. visits' \in 0 .. MaxVisits
  BY <1>1, <1>2 DEF TypeOK
<1>5. CASE Identical(dest)
  <2>1. Report(c, "AlreadyPresent")
    BY <1>5 DEF Look
  <2>2. /\ Moves(c) /\ pc'[c] \in {"idle", "looking"}
        /\ stamp'[c] = "none" /\ status'[c] = "AlreadyPresent"
    BY <1>1, <1>2, <2>1, ReportMoves DEF Status
  <2>3. Ordinary(c)
    BY <1>1, <1>3, <1>4, <2>2, SteadyOrdinary DEF Filler
  <2>4. dest = Source
    BY <1>2, <1>5, SourceDir DEF TypeOK
  <2>5. pc'[c] \notin Filler /\ pc'[c] \notin Replacing /\ pc'[c] # "checking"
        /\ pc'[c] \notin {"making", "copying"}
    BY <2>2 DEF Replacing, Filler
  <2>6. Undisturbed(c)'
    BY <2>5 DEF Undisturbed, Underway
  <2>7. Reported(c)'
    BY <1>3, <2>4, HoldsItself DEF Reported
  <2>8. Own(c)
    BY <2>5, <2>6, <2>7 DEF Own, Local
  <2> QED BY <2>3, <2>8, OrdinaryInv
<1>6. CASE ~Identical(dest)
  <2>1. /\ pc' = [pc EXCEPT ![c] = "checking"]
        /\ status' = [status EXCEPT ![c] = "none"]
        /\ UNCHANGED <<left, todo, stamp>>
    BY <1>6 DEF Look
  <2>2. "checking" \in Phase /\ "none" \in Status
    BY DEF Phase, Status
  <2>3. pc'[c] = "checking" /\ todo'[c] > 0
    BY <1>1, <1>2, <2>1 DEF TypeOK, Placed
  <2>4. Placed(c)'
    BY <2>3 DEF Placed
  <2>5. Moves(c)
    BY <1>2, <2>1, <2>2, <2>4 DEF TypeOK, Moves
  <2>6. Ordinary(c)
    BY <1>1, <1>3, <1>4, <2>1, <2>3, <2>5, SteadyOrdinary DEF Filler
  <2>7. pc'[c] \notin Filler /\ pc'[c] \notin Replacing
    BY <2>3 DEF Filler, Replacing
  <2>8. Undisturbed(c)' /\ Reported(c)'
    BY <1>3, <2>3, <2>7 DEF Undisturbed, Underway, Reported
  <2>9. Own(c)
    BY <2>7, <2>8 DEF Own, Local
  <2> QED BY <2>6, <2>9, OrdinaryInv
<1> QED
  BY <1>5, <1>6

LEMMA CheckStartsBackup ==
    ASSUME IInv, NEW c \in Commands, pc[c] = "checking", NEW s \in Stamps,
           pc' = [pc EXCEPT ![c] = "backing_up"],
           left' = [left EXCEPT ![c] = Files],
           stamp' = [stamp EXCEPT ![c] = s],
           shared' = (shared \/ backups[s].there),
           backups' = [backups EXCEPT ![s] = Made(backups[s])],
           UNCHANGED <<todo, status, dest, disturbed, base, visits, user>>
    PROVE  IInv'
PROOF
<1>1. TypeOK
  BY DEF IInv
<1>2. /\ pc'[c] = "backing_up" /\ left'[c] = Files /\ stamp'[c] = s
      /\ \A d \in Commands \ {c} :
           pc'[d] = pc[d] /\ stamp'[d] = stamp[d] /\ left'[d] = left[d]
  BY <1>1 DEF TypeOK
<1>3. /\ backups[s] \in Dir
      /\ backups' \in [Stamps -> Dir] /\ backups'[s].there
      /\ \A t \in Stamps \ {s} : backups'[t] = backups[t]
  BY <1>1, MadeDir DEF TypeOK
<1>4. s # "none"
  BY StampsAssumption
<1>5. TypeOK'
  <2>1. \A d \in Commands : Placed(d)'
    <3>1. \A d \in Commands : Placed(d)
      BY <1>1 DEF TypeOK
    <3> QED BY <1>2, <1>4, <3>1 DEF Placed
  <2>2. "backing_up" \in Phase
    BY DEF Phase
  <2>3. shared' \in BOOLEAN
    BY <1>1, <1>3, DirShape DEF TypeOK
  <2>4. /\ pc' \in [Commands -> Phase]
        /\ left' \in [Commands -> SUBSET Files]
        /\ stamp' \in [Commands -> Stamps \cup {"none"}]
    BY <1>1, <2>2 DEF TypeOK
  <2> QED BY <1>1, <1>3, <2>1, <2>3, <2>4 DEF TypeOK, user
<1>6. ASSUME ~shared'
      PROVE  ~shared /\ backups[s] = Absent /\ ~backups[s].there
  BY <1>3, <1>6, DirShape
<1>7. KeepsSettled
  <2> SUFFICES ASSUME ~shared', NEW t \in Stamps, SettledIn(stamp, pc, t)
               PROVE  \/ backups'[t] = backups[t] /\ SettledIn(stamp', pc', t)
                      \/ backups[t] = Absent
    BY <1>6 DEF KeepsSettled
  <2>1. CASE t = s
    BY <1>6, <2>1
  <2>2. CASE t # s
    <3>1. backups'[t] = backups[t]
      BY <1>3, <2>2
    <3>2. SettledIn(stamp', pc', t)
      BY <1>2, <2>2 DEF SettledIn
    <3> QED BY <3>1, <3>2
  <2> QED BY <2>1, <2>2
<1>8. ASSUME NEW d \in Commands \ {c}, stamp[d] # "none", ~shared'
      PROVE  /\ stamp[d] # s /\ backups'[stamp[d]] = backups[stamp[d]]
             /\ backups'[stamp[d]].there
  <2>1. backups[stamp[d]].there
    BY <1>6, <1>8 DEF IInv, Apart
  <2>2. stamp[d] # s
    BY <1>6, <1>8, <2>1
  <2>3. stamp[d] \in Stamps
    BY <1>1, <1>8 DEF TypeOK
  <2> QED BY <1>3, <2>1, <2>2, <2>3
<1>9. Apart'
  <2> SUFFICES ASSUME ~shared', NEW d \in Commands, stamp'[d] # "none"
               PROVE  /\ backups'[stamp'[d]].there
                      /\ \A e \in Commands \ {d} : stamp'[e] # stamp'[d]
    BY DEF Apart
  <2>1. CASE d = c
    BY <1>2, <1>3, <1>4, <1>8, <2>1
  <2>2. CASE d # c
    <3>1. stamp'[d] = stamp[d]
      BY <1>2, <2>2
    <3>2. backups'[stamp[d]].there /\ stamp[d] # s
      BY <1>8, <2>2, <3>1
    <3>3. \A e \in Commands \ {d} : stamp[e] # stamp[d]
      BY <1>6, <3>1 DEF IInv, Apart
    <3> QED BY <1>2, <3>1, <3>2, <3>3
  <2> QED BY <2>1, <2>2
<1>10. Frame(c)
  BY <1>2, <1>7, <1>8, <1>9 DEF Frame, user
<1>11. Own(c)
  <2>1. /\ pc'[c] \notin Replacing /\ pc'[c] \notin {"idle", "looking", "checking", "making", "copying"}
    BY <1>2 DEF Replacing
  <2>2. \A original : RegularFiles(original) \ left'[c] = {}
    BY <1>2 DEF RegularFiles
  <2>3. ASSUME ~disturbed'[c] PROVE Undisturbed(c)' /\ Reported(c)'
    <3>1. Filled(c, base[c])'
      <4>1. RegularFiles(base'[c]) \ left'[c] = {}
        BY <2>2
      <4> QED BY <4>1 DEF Filled, RegularFiles
    <3>2. dest' = base'[c]
      BY <2>3 DEF IInv, Local, Undisturbed
    <3>3. Undisturbed(c)'
      BY <2>1, <3>1, <3>2 DEF Undisturbed, Underway
    <3> QED BY <2>1, <3>3 DEF Reported
  <2>4. Local(c)'
    BY <2>3 DEF Local
  <2> QED BY <2>1, <2>2, <2>4 DEF Own
<1> QED
  BY <1>5, <1>10, <1>11, Combine

LEMMA CheckInv ==
    ASSUME IInv, NEW c \in Commands, Check(c)
    PROVE  IInv'
PROOF
<1>1. pc[c] = "checking" /\ UNCHANGED <<visits, user>>
  BY DEF Check
<1>2. TypeOK /\ visits' \in 0 .. MaxVisits /\ dest \in Dir
  BY <1>1 DEF IInv, TypeOK
<1>3. ASSUME NEW how \in Status, Report(c, how), Untouched,
             UNCHANGED <<backups, shared>>,
             how \in {"AlreadyPresent", "Installed"} => dest = Source
      PROVE  IInv'
  <2>1. /\ Moves(c) /\ pc'[c] \in {"idle", "looking"}
        /\ stamp'[c] = "none" /\ status'[c] = how
    BY <1>1, <1>2, <1>3, ReportMoves
  <2>2. Sees(c) /\ Remembers(c) /\ dest' = dest
    BY <1>2, <1>3, UntouchedSees
  <2>3. Ordinary(c)
    BY <1>1, <1>2, <1>3, <2>1, <2>2, SteadyOrdinary DEF Filler
  <2> QED BY <1>1, <1>3, <2>1, <2>2, <2>3, StopsBefore
<1>4. CASE Identical(dest) /\ Report(c, "Installed") /\ Untouched
           /\ UNCHANGED <<backups, shared>>
  <2>1. dest = Source
    BY <1>2, <1>4, SourceDir
  <2> QED BY <1>3, <1>4, <2>1 DEF Status
<1>5. CASE /\ dest.there /\ ~Identical(dest)
           /\ pc' = [pc EXCEPT ![c] = "backing_up"]
           /\ left' = [left EXCEPT ![c] = Files]
           /\ UNCHANGED <<todo, status>>
           /\ \E s \in Stamps :
               /\ stamp' = [stamp EXCEPT ![c] = s]
               /\ shared' = (shared \/ backups[s].there)
               /\ backups' = [backups EXCEPT ![s] = Made(backups[s])]
           /\ Untouched
  BY <1>1, <1>5, CheckStartsBackup DEF Untouched
<1>6. CASE /\ ~dest.there /\ Goto(c, "making", {}) /\ Untouched
           /\ UNCHANGED <<backups, shared>>
  <2>1. dest = Absent
    BY <1>2, <1>6, DirShape
  <2>2. Moves(c) /\ pc'[c] = "making" /\ stamp' = stamp
    BY <1>1, <1>2, <1>6, GotoMoves DEF Phase
  <2>3. Sees(c) /\ Remembers(c) /\ dest' = dest
    BY <1>2, <1>6, UntouchedSees
  <2>4. raced \/ Secure(saved)
    <3>1. Holds(dest, saved) => RegularFiles(saved) = {}
      BY <2>1, AbsentEmpty
    <3> QED BY <3>1 DEF IInv, Recovering, Secure, SecureIn
  <2>5. pc'[c] \notin Filler \cup {"checking", "idle", "looking", "copying"}
    BY <2>2 DEF Filler
  <2>6. Ordinary(c)
    BY <1>1, <1>2, <1>6, <2>2, <2>3, <2>5, SteadyOrdinary
  <2>7. \A original :
          Secure(original) => SecureIn(shared', backups', stamp', pc', original)
    BY <2>6, OrdinaryFrame, SecureStays DEF Frame
  <2>8. ASSUME ~disturbed'[c] PROVE Undisturbed(c)' /\ Reported(c)'
    <3>1. ~disturbed[c] /\ base'[c] = base[c]
      BY <2>3, <2>8 DEF Remembers
    <3>2. base[c] = Absent
      BY <1>1, <2>1, <3>1 DEF IInv, Local, Undisturbed
    <3>3. Secure(base[c])'
      <4>1. RegularFiles(base'[c]) = {}
        BY <3>1, <3>2, AbsentEmpty
      <4> QED BY <4>1 DEF Secure, SecureIn, RegularFiles
    <3>4. Underway(pc'[c], dest', left'[c])
      BY <2>1, <2>3, <2>5 DEF Underway
    <3>5. Undisturbed(c)'
      BY <2>5, <3>3, <3>4 DEF Undisturbed
    <3> QED BY <2>5, <3>5 DEF Reported
  <2>9. Own(c)
    BY <2>4, <2>5, <2>7, <2>8 DEF Own, Local
  <2> QED BY <2>6, <2>9, OrdinaryInv
<1>7. CASE ~Identical(dest) /\ Report(c, "Error") /\ Untouched
           /\ UNCHANGED <<backups, shared>>
  BY <1>3, <1>7 DEF Status
<1> QED
  BY <1>4, <1>5, <1>6, <1>7 DEF Check

LEMMA BackUpFileInv ==
    ASSUME IInv, NEW c \in Commands, BackUpFile(c)
    PROVE  IInv'
PROOF
<1>1. /\ pc[c] = "backing_up" /\ Untouched
      /\ UNCHANGED <<visits, shared, user>>
  BY DEF BackUpFile
<1>2. PICK f \in left[c] :
        /\ backups' = [backups EXCEPT ![stamp[c]] = Copied(dest, backups[stamp[c]], f)]
        /\ Goto(c, IF left[c] = {f} THEN "verifying" ELSE "backing_up", left[c] \ {f})
  BY DEF BackUpFile
<1>3. /\ TypeOK /\ dest \in Dir /\ f \in Files /\ stamp[c] \in Stamps
      /\ visits' \in 0 .. MaxVisits
  BY <1>1, <1>2 DEF IInv, TypeOK, Placed
<1> DEFINE bk == Copied(dest, backups[stamp[c]], f)
<1>4. /\ backups[stamp[c]] \in Dir /\ bk \in Dir
      /\ backups[stamp[c]].there => bk.there
      /\ f \in RegularFiles(dest) => bk.files[f] = dest.files[f]
      /\ \A g \in Files \ {f} : bk.files[g] = backups[stamp[c]].files[g]
  <2>1. backups[stamp[c]] \in Dir
    BY <1>3 DEF TypeOK
  <2>2. ASSUME NEW to \in Dir
        PROVE  /\ Copied(dest, to, f) \in Dir
               /\ to.there => Copied(dest, to, f).there
               /\ f \in RegularFiles(dest) => Copied(dest, to, f).files[f] = dest.files[f]
               /\ \A g \in Files \ {f} : Copied(dest, to, f).files[g] = to.files[g]
    BY <1>3, CopiedDir
  <2> QED BY <2>1, <2>2
<1>5. /\ backups' \in [Stamps -> Dir] /\ backups'[stamp[c]] = bk
      /\ \A s \in Stamps \ {stamp[c]} : backups'[s] = backups[s]
  BY <1>2, <1>3, <1>4 DEF TypeOK
<1>6. /\ Moves(c) /\ pc'[c] \in {"verifying", "backing_up"}
      /\ left'[c] = left[c] \ {f} /\ stamp' = stamp
  <2> DEFINE phase == IF left[c] = {f} THEN "verifying" ELSE "backing_up"
  <2>1. phase \in Phase \ {"idle"} /\ left[c] \ {f} \in SUBSET Files
    BY <1>3 DEF Phase, TypeOK
  <2>2. phase = "verifying" => left[c] \ {f} = {}
    OBVIOUS
  <2>3. stamp[c] # "none"
    BY <1>3, StampsAssumption
  <2>4. Goto(c, phase, left[c] \ {f})
    BY <1>2
  <2>5. phase \in {"verifying", "backing_up"}
    OBVIOUS
  <2> HIDE DEF phase
  <2> QED BY <1>1, <1>3, <2>1, <2>2, <2>3, <2>4, <2>5, GotoMoves
<1>7. Sees(c) /\ Remembers(c) /\ dest' = dest
  BY <1>1, <1>3, UntouchedSees
<1>8. Ordinary(c)
  <2>1. ~shared => bk.there
    BY <1>3, <1>4, StampsAssumption DEF IInv, Apart
  <2>2. pc[c] \in Filler
    BY <1>1 DEF Filler
  <2>3. \A s \in Stamps : backups'[s] # backups[s] => s = stamp[c]
    BY <1>5
  <2>4. stamp'[c] = stamp[c] /\ (~shared => backups'[stamp[c]].there)
    BY <1>5, <1>6, <2>1
  <2>5. UNCHANGED <<shared, saves, saved, raced>>
    BY <1>1 DEF user
  <2> QED BY <1>3, <1>5, <1>6, <1>7, <2>2, <2>3, <2>4, <2>5 DEF Ordinary
<1>9. \A original :
        Secure(original) => SecureIn(shared', backups', stamp', pc', original)
  BY <1>8, OrdinaryFrame, SecureStays DEF Frame
<1>10. ASSUME NEW original, Holds(dest, original), Filled(c, original)
       PROVE  \A g \in RegularFiles(original) \ left'[c] :
                backups'[stamp'[c]].files[g] = original.files[g]
  <2> SUFFICES ASSUME NEW g \in RegularFiles(original) \ left'[c]
               PROVE  bk.files[g] = original.files[g]
    BY <1>5, <1>6
  <2>1. g \in Files /\ original.files[g] \in Content
    BY DEF RegularFiles
  <2>2. CASE g = f
    <3>1. dest.files[f] = original.files[f]
      BY <1>10, <2>2 DEF Holds
    <3>2. f \in RegularFiles(dest)
      BY <1>3, <2>1, <2>2, <3>1 DEF RegularFiles
    <3> QED BY <1>4, <2>2, <3>1, <3>2
  <2>3. CASE g # f
    <3>1. g \notin left[c]
      BY <1>6, <2>3
    <3>2. backups[stamp[c]].files[g] = original.files[g]
      BY <1>10, <3>1 DEF Filled
    <3> QED BY <1>4, <2>1, <2>3, <3>2
  <2> QED BY <2>2, <2>3
<1>11. /\ pc'[c] \notin Replacing /\ pc'[c] \notin {"idle", "looking", "making", "copying"}
       /\ pc[c] \in Filler
  BY <1>1, <1>6 DEF Replacing, Filler
<1>12. \/ raced
       \/ SecureIn(shared', backups', stamp', pc', saved)
       \/ \A g \in RegularFiles(saved) \ left'[c] :
            backups'[stamp'[c]].files[g] = saved.files[g]
  <2>1. raced \/ Secure(saved) \/ (Holds(dest, saved) /\ Filled(c, saved))
    BY <1>11 DEF IInv, Recovering, Filling
  <2> QED BY <1>9, <1>10, <2>1
<1>13. ASSUME ~disturbed'[c] PROVE Undisturbed(c)' /\ Reported(c)'
  <2>1. ~disturbed[c] /\ base'[c] = base[c]
    BY <1>7, <1>13 DEF Remembers
  <2>2. dest = base[c] /\ (shared \/ Filled(c, base[c]))
    BY <1>11, <2>1 DEF IInv, Local, Undisturbed
  <2>3. shared' \/ Filled(c, base[c])'
    <3>1. Filled(c, base[c]) =>
            \A g \in RegularFiles(base[c]) \ left'[c] :
              backups'[stamp'[c]].files[g] = base[c].files[g]
      BY <1>10, <2>2, HoldsItself
    <3>2. Filled(c, base[c]) => Filled(c, base[c])'
      BY <2>1, <3>1 DEF Filled, RegularFiles
    <3> QED BY <1>1, <2>2, <3>2
  <2>4. Undisturbed(c)'
    BY <1>7, <1>11, <2>1, <2>2, <2>3 DEF Undisturbed, Underway
  <2> QED BY <1>11, <2>4 DEF Reported
<1>14. Own(c)
  BY <1>11, <1>12, <1>13 DEF Own, Local
<1> QED
  BY <1>8, <1>14, OrdinaryInv

LEMMA VerifyInv ==
    ASSUME IInv, NEW c \in Commands, Verify(c)
    PROVE  IInv'
PROOF
<1>1. /\ pc[c] = "verifying" /\ pc[c] \in Filler /\ Untouched
      /\ UNCHANGED <<visits, shared, user>>
  BY DEF Verify, Filler
<1>2. /\ TypeOK /\ stamp[c] \in Stamps /\ left[c] = {}
      /\ visits' \in 0 .. MaxVisits
  BY <1>1 DEF IInv, TypeOK, Placed
<1>3. Sees(c) /\ Remembers(c) /\ dest' = dest
  BY <1>1, <1>2, UntouchedSees
<1>4. CASE Goto(c, "clearing", Files) /\ UNCHANGED backups
  <2>1. /\ Moves(c) /\ pc'[c] = "clearing" /\ left'[c] = Files /\ stamp' = stamp
    BY <1>1, <1>2, <1>4, StampsAssumption, GotoMoves DEF Phase
  <2>2. pc'[c] \notin Filler
        /\ pc'[c] \notin {"idle", "looking", "making", "copying", "checking"}
    BY <2>1 DEF Filler
  <2>3. Ordinary(c)
    BY <1>1, <1>2, <1>3, <1>4, <2>1, <2>2, SteadyOrdinary
  <2>4. \A original :
          Secure(original) => SecureIn(shared', backups', stamp', pc', original)
    BY <2>3, OrdinaryFrame, SecureStays DEF Frame
  <2>5. ASSUME NEW original, Filled(c, original)
        PROVE  SecureIn(shared', backups', stamp', pc', original)
    <3>1. Holds(backups'[stamp[c]], original)
      BY <1>2, <1>4, <2>5 DEF Filled, Holds
    <3>2. CASE shared
      BY <1>1, <3>2 DEF SecureIn
    <3>3. CASE ~shared
      <4>1. \A d \in Commands \ {c} : stamp[d] # stamp[c]
        BY <1>2, <3>3, StampsAssumption DEF IInv, Apart
      <4>2. SettledIn(stamp', pc', stamp[c])
        BY <2>1, <2>2, <4>1 DEF SettledIn
      <4> QED BY <1>2, <3>1, <4>2 DEF SecureIn
    <3> QED BY <3>2, <3>3
  <2>6. raced \/ SecureIn(shared', backups', stamp', pc', saved)
    <3>1. raced \/ Secure(saved) \/ Filled(c, saved)
      BY <1>1 DEF IInv, Filling
    <3> QED BY <2>4, <2>5, <3>1
  <2>7. ASSUME ~disturbed'[c] PROVE Undisturbed(c)' /\ Reported(c)'
    <3>1. ~disturbed[c] /\ base'[c] = base[c]
      BY <1>3, <2>7 DEF Remembers
    <3>2. shared \/ Filled(c, base[c])
      BY <1>1, <3>1 DEF IInv, Local, Undisturbed
    <3>3. SecureIn(shared', backups', stamp', pc', base[c])
      <4>1. shared => SecureIn(shared', backups', stamp', pc', base[c])
        BY <1>1 DEF SecureIn
      <4> QED BY <2>5, <3>2, <4>1
    <3>4. Secure(base[c])'
      BY <3>1, <3>3 DEF Secure
    <3>5. Undisturbed(c)'
      BY <2>2, <3>4 DEF Undisturbed, Underway
    <3> QED BY <2>2, <3>5 DEF Reported
  <2>8. Own(c)
    BY <2>2, <2>6, <2>7 DEF Own, Local
  <2> QED BY <2>3, <2>8, OrdinaryInv
<1>5. CASE Report(c, "Error") /\ backups' = [backups EXCEPT ![stamp[c]] = Absent]
  <2>1. /\ Moves(c) /\ pc'[c] \in {"idle", "looking"}
        /\ stamp'[c] = "none" /\ status'[c] = "Error"
    BY <1>1, <1>2, <1>5, ReportMoves DEF Status
  <2>2. /\ backups' \in [Stamps -> Dir]
        /\ \A s \in Stamps : backups'[s] # backups[s] => s = stamp[c]
    BY <1>2, <1>5, AbsentEmpty DEF TypeOK
  <2>3. Ordinary(c)
    BY <1>1, <1>2, <1>3, <2>1, <2>2 DEF Ordinary, user
  <2> QED BY <1>1, <1>3, <2>1, <2>3, StopsBefore
<1> QED
  BY <1>4, <1>5 DEF Verify

\* Steps that change the destination file by file, or move on to the next part.
LEMMA Rewrites ==
    ASSUME IInv, NEW c \in Commands, pc[c] \in Replacing,
           NEW phase \in Replacing, NEW files \in SUBSET Files, NEW dir \in Dir,
           Goto(c, phase, files), Change(c, dir) \/ (Untouched /\ dir = dest),
           UNCHANGED <<backups, visits, shared, user>>,
           phase \notin {"making", "copying"} => stamp[c] # "none",
           ~disturbed[c] => Underway(phase, dir, files)
    PROVE  IInv'
PROOF
<1>1. TypeOK /\ visits' \in 0 .. MaxVisits /\ pc[c] # "idle"
  BY DEF IInv, TypeOK, Replacing
<1>2. Sees(c) /\ Remembers(c) /\ dest' = dir
  BY <1>1, ChangeSees, UntouchedSees
<1>3. phase \in Phase \ {"idle"} /\ phase \notin Filler
  BY DEF Replacing, Phase, Filler
<1>4. Moves(c) /\ pc'[c] = phase /\ left'[c] = files /\ stamp' = stamp
  BY <1>1, <1>3, GotoMoves DEF Filler
<1>5. Ordinary(c)
  BY <1>1, <1>2, <1>3, <1>4, SteadyOrdinary
<1> QED
  BY <1>2, <1>4, <1>5, Replaces

\* It ends with a report, after a last change or none.
LEMMA Ends ==
    ASSUME IInv, NEW c \in Commands, pc[c] \in Replacing,
           NEW how \in Status, NEW dir \in Dir,
           Report(c, how), Change(c, dir) \/ (Untouched /\ dir = dest),
           UNCHANGED <<backups, visits, shared, user>>,
           ~disturbed[c] /\ how \in {"AlreadyPresent", "Installed"} => dir = Source
    PROVE  IInv'
PROOF
<1>1. TypeOK /\ visits' \in 0 .. MaxVisits /\ pc[c] # "idle"
  BY DEF IInv, TypeOK, Replacing
<1>2. Sees(c) /\ Remembers(c) /\ dest' = dir
  BY <1>1, ChangeSees, UntouchedSees
<1>3. /\ Moves(c) /\ pc'[c] \in {"idle", "looking"}
      /\ stamp'[c] = "none" /\ status'[c] = how
  BY <1>1, ReportMoves
<1>4. Ordinary(c)
  BY <1>1, <1>2, <1>3, SteadyOrdinary DEF Filler
<1> QED
  BY <1>2, <1>3, <1>4, StopsReplacing

\* A cut-off file still leaves a directory.
LEMMA CutDir ==
    ASSUME NEW dir \in Dir, NEW f \in Files
    PROVE  With(dir, f, "cut") \in Dir /\ With(dir, f, "cut").there
PROOF
<1>1. "cut" \in Entry
  BY DEF Entry, Content
<1> QED
  BY <1>1, WithDir

LEMMA MakeDirInv ==
    ASSUME IInv, NEW c \in Commands, MakeDir(c)
    PROVE  IInv'
PROOF
<1>1. /\ pc[c] = "making" /\ pc[c] \in Replacing /\ "copying" \in Replacing
      /\ Change(c, Made(dest)) /\ Goto(c, "copying", Files)
      /\ UNCHANGED <<backups, visits, shared, user>>
  BY DEF MakeDir, Replacing
<1>2. Made(dest) \in Dir /\ Made(dest).there /\ Made(dest).files = dest.files
  BY MadeDir DEF IInv, TypeOK
<1>3. ASSUME ~disturbed[c] PROVE Underway("copying", Made(dest), Files)
  <2>1. dest = Absent
    BY <1>1, <1>3 DEF IInv, Local, Undisturbed, Underway
  <2>2. \A f \in Files : Made(dest).files[f] = "none"
    BY <1>2, <2>1 DEF Absent
  <2> QED BY <1>2, <2>2 DEF Underway
<1>4. "copying" \notin {"clearing", "wiping", "restoring"} /\ Files \in SUBSET Files
  OBVIOUS
<1> QED
  BY <1>1, <1>2, <1>3, <1>4, Rewrites

LEMMA CopyFileInv ==
    ASSUME IInv, NEW c \in Commands, CopyFile(c)
    PROVE  IInv'
PROOF
<1>1. pc[c] = "copying" /\ UNCHANGED <<backups, visits, shared, user>>
  BY DEF CopyFile
<1>2. PICK f \in left[c] :
        Change(c, Copied(Source, dest, f)) /\ Goto(c, "copying", left[c] \ {f})
  BY DEF CopyFile
<1>3. TypeOK /\ dest \in Dir /\ f \in Files /\ left[c] \ {f} \in SUBSET Files
      /\ left[c] \subseteq Files
  BY <1>2 DEF IInv, TypeOK
<1> DEFINE new == Copied(Source, dest, f)
<1>4. /\ new \in Dir
      /\ dest.there => new.there
      /\ f \in Shipped => new.files[f] = Source.files[f]
      /\ f \notin Shipped => new = dest
      /\ \A g \in Files \ {f} : new.files[g] = dest.files[g]
  <2>1. Source \in Dir /\ RegularFiles(Source) = Shipped
    BY SourceDir
  <2>2. f \notin Shipped => new = dest
    BY <2>1 DEF Copied
  <2> QED BY <1>3, <2>1, <2>2, CopiedDir
<1>5. ASSUME ~disturbed[c] PROVE Underway("copying", new, left[c] \ {f})
  <2>1. /\ dest.there
        /\ \A g \in Files :
             dest.files[g] = IF g \in left[c] THEN "none" ELSE Source.files[g]
    BY <1>1, <1>5 DEF IInv, Local, Undisturbed, Underway
  <2>2. new.files[f] = Source.files[f]
    <3>1. CASE f \in Shipped
      BY <1>4, <3>1
    <3>2. CASE f \notin Shipped
      <4>1. Source.files[f] = "none"
        BY <1>3, <3>2, SourceDir
      <4> QED BY <1>3, <1>4, <2>1, <3>2, <4>1
    <3> QED BY <3>1, <3>2
  <2>3. ASSUME NEW g \in Files
        PROVE  new.files[g] =
                 IF g \in left[c] \ {f} THEN "none" ELSE Source.files[g]
    <3>1. CASE g = f
      BY <2>2, <3>1
    <3>2. CASE g # f
      BY <1>4, <2>1, <3>2
    <3> QED BY <3>1, <3>2
  <2> QED BY <1>4, <2>1, <2>3 DEF Underway
<1>6. "copying" \in Replacing /\ pc[c] \in Replacing
      /\ "copying" \in {"making", "copying"}
  BY <1>1 DEF Replacing
<1> HIDE DEF new
<1>7. Change(c, new)
  BY <1>2 DEF new
<1> QED
  BY <1>1, <1>2, <1>3, <1>4, <1>5, <1>6, <1>7, Rewrites

LEMMA FinishInv ==
    ASSUME IInv, NEW c \in Commands, Finish(c)
    PROVE  IInv'
PROOF
<1>1. /\ pc[c] = "copying" /\ left[c] = {} /\ Untouched
      /\ UNCHANGED <<backups, visits, shared, user>>
  BY DEF Finish
<1>2. PICK how \in {"Error", "Installed"} : Report(c, how)
  BY DEF Finish
<1>3. dest \in Dir /\ how \in Status /\ pc[c] \in Replacing
  BY <1>1 DEF IInv, TypeOK, Status, Replacing
<1>4. ~disturbed[c] => dest = Source
  <2>1. ~disturbed[c] => Identical(dest)
    BY <1>1 DEF IInv, Local, Undisturbed, Underway, Identical
  <2> QED BY <1>3, <2>1, SourceDir
<1> QED
  BY <1>1, <1>2, <1>3, <1>4, Ends

\* Clearing, wiping and restoring, whole and step by step.
LEMMA ClearInv ==
    ASSUME IInv, NEW c \in Commands,
           ClearFile(c) \/ Cleared(c) \/ WipeFile(c) \/ Wiped(c) \/ RestoreFile(c)
    PROVE  IInv'
PROOF
<1>1. /\ pc[c] \in {"clearing", "wiping", "restoring"} /\ pc[c] \in Replacing
      /\ UNCHANGED <<backups, visits, shared, user>>
  BY DEF Replacing, ClearFile, Cleared, WipeFile, Wiped, RestoreFile
<1>2. TypeOK /\ dest \in Dir /\ left[c] \subseteq Files /\ stamp[c] \in Stamps
  BY <1>1 DEF IInv, TypeOK, Placed, Replacing
<1>3. stamp[c] # "none" /\ Files \in SUBSET Files
  BY <1>2, StampsAssumption
<1>4. /\ \A phase \in {"clearing", "wiping", "restoring"} : \A dir, files :
           phase \in Replacing /\ Underway(phase, dir, files)
      /\ \A f \in left[c] : left[c] \ {f} \in SUBSET Files
  BY <1>2 DEF Replacing, Underway
<1>5. CASE ClearFile(c) \/ WipeFile(c)
  <2>1. PICK f \in left[c], phase \in {"clearing", "wiping"} :
          Change(c, Without(dest, f)) /\ Goto(c, phase, left[c] \ {f})
    BY <1>5 DEF ClearFile, WipeFile
  <2>2. Without(dest, f) \in Dir
    BY <1>2, WithoutDir
  <2> QED BY <1>1, <1>3, <1>4, <2>1, <2>2, Rewrites
<1>6. CASE Cleared(c)
  <2>1. Change(c, Absent) /\ Goto(c, "making", {}) /\ {} \in SUBSET Files
    BY <1>6 DEF Cleared
  <2>2. Absent \in Dir /\ "making" \in Replacing /\ Underway("making", Absent, {})
    BY AbsentEmpty DEF Replacing, Underway
  <2> QED BY <1>1, <1>3, <2>1, <2>2, Rewrites
<1>7. CASE Wiped(c)
  <2>1. Change(c, Made(dest)) /\ Goto(c, "restoring", Files)
    BY <1>7 DEF Wiped
  <2>2. Made(dest) \in Dir
    BY <1>2, MadeDir
  <2> QED BY <1>1, <1>3, <1>4, <2>1, <2>2, Rewrites
<1>8. CASE RestoreFile(c)
  <2>1. PICK f \in left[c] : /\ Change(c, Copied(backups[stamp[c]], dest, f))
                             /\ Goto(c, "restoring", left[c] \ {f})
    BY <1>8 DEF RestoreFile
  <2>2. backups[stamp[c]] \in Dir /\ f \in Files
    BY <1>2, <2>1 DEF TypeOK
  <2>3. ASSUME NEW from \in Dir PROVE Copied(from, dest, f) \in Dir
    BY <1>2, <2>2, CopiedDir
  <2>4. Copied(backups[stamp[c]], dest, f) \in Dir
    BY <2>2, <2>3
  <2> QED BY <1>1, <1>3, <1>4, <2>1, <2>4, Rewrites
<1> QED
  BY <1>5, <1>6, <1>7, <1>8

LEMMA CopyFailsInv ==
    ASSUME IInv, NEW c \in Commands, CopyFails(c)
    PROVE  IInv'
PROOF
<1>1. /\ pc[c] \in {"making", "copying"} /\ pc[c] \in Replacing
      /\ UNCHANGED <<backups, visits, shared, user>>
  BY DEF CopyFails, Replacing
<1>2. TypeOK /\ dest \in Dir /\ left[c] \subseteq Files
  BY DEF IInv, TypeOK
<1>3. PICK dir \in Dir : Change(c, dir) \/ (Untouched /\ dir = dest)
  BY <1>2, CutDir DEF CopyFails
<1>4. CASE stamp[c] = "none"
  <2>1. Report(c, "Error") /\ "Error" \in Status
    BY <1>4 DEF CopyFails, Status
  <2> QED BY <1>1, <1>3, <2>1, Ends
<1>5. CASE stamp[c] # "none"
  <2>1. /\ Goto(c, "wiping", Files) /\ "wiping" \in Replacing
        /\ \A d : Underway("wiping", d, Files)
    BY <1>5 DEF CopyFails, Replacing, Underway
  <2> QED BY <1>1, <1>3, <1>5, <2>1, Rewrites
<1> QED
  BY <1>4, <1>5

LEMMA RestoredInv ==
    ASSUME IInv, NEW c \in Commands, Restored(c)
    PROVE  IInv'
PROOF
<1>1. /\ pc[c] \in Replacing /\ "Error" \in Status /\ dest \in Dir
  BY DEF Restored, Replacing, Status, IInv, TypeOK
<1> QED
  BY <1>1, Ends DEF Restored

\* A backup is given up, perhaps in the middle of a file.
LEMMA GivesUp ==
    ASSUME IInv, NEW c \in Commands, Moves(c), Untouched,
           UNCHANGED <<visits, shared, user>>,
           pc[c] \in Filler \cup {"checking"}, pc'[c] \in {"idle", "looking"},
           stamp'[c] = "none", status'[c] \in {"Error", "killed"},
           \/ UNCHANGED backups
           \/ /\ pc[c] \in Filler
              /\ \E f \in left[c] :
                  backups' = [backups EXCEPT ![stamp[c]] = With(backups[stamp[c]], f, "cut")]
    PROVE  IInv'
PROOF
<1>1. TypeOK /\ visits' \in 0 .. MaxVisits
  BY DEF IInv, TypeOK
<1>2. Sees(c) /\ Remembers(c) /\ dest' = dest
  BY <1>1, UntouchedSees
<1>3. /\ backups' \in [Stamps -> Dir]
      /\ \A s \in Stamps :
           backups'[s] # backups[s] => pc[c] \in Filler /\ s = stamp[c]
  <2>1. CASE UNCHANGED backups
    BY <1>1, <2>1 DEF TypeOK
  <2>2. CASE ~UNCHANGED backups
    <3>1. pc[c] \in Filler
      BY <2>2
    <3>2. PICK f \in left[c] :
            backups' = [backups EXCEPT ![stamp[c]] = With(backups[stamp[c]], f, "cut")]
      BY <2>2
    <3>3. stamp[c] \in Stamps /\ f \in Files
      BY <1>1, <3>1, <3>2 DEF TypeOK, Placed, Filler
    <3>4. backups[stamp[c]] \in Dir
      BY <1>1, <3>3 DEF TypeOK
    <3>5. With(backups[stamp[c]], f, "cut") \in Dir
      BY <3>3, <3>4, CutDir
    <3> QED BY <1>1, <3>1, <3>2, <3>3, <3>5 DEF TypeOK
  <2> QED BY <2>1, <2>2
<1>4. pc'[c] \notin Filler
  BY DEF Filler
<1>5. UNCHANGED <<shared, saves, saved, raced>>
  BY DEF user
<1>6. Ordinary(c)
  BY <1>1, <1>2, <1>3, <1>4, <1>5 DEF Ordinary
<1> QED
  BY <1>2, <1>6, StopsBefore

LEMMA FailsInv ==
    ASSUME IInv, NEW c \in Commands, Fails(c)
    PROVE  IInv'
PROOF
<1>1. /\ Report(c, "Error") /\ "Error" \in Status
      /\ UNCHANGED <<visits, shared, user>>
  BY DEF Fails, Status
<1>2. TypeOK /\ dest \in Dir /\ left[c] \subseteq Files
  BY DEF IInv, TypeOK
<1>3. CASE pc[c] \in {"clearing", "restoring"}
  <2>1. UNCHANGED backups
    BY <1>3 DEF Fails
  <2>2. PICK dir \in Dir : Change(c, dir) \/ (Untouched /\ dir = dest)
    BY <1>2, <1>3, CutDir DEF Fails
  <2>3. pc[c] \in Replacing
    BY <1>3 DEF Replacing
  <2> QED BY <1>1, <2>1, <2>2, <2>3, Ends
<1>4. CASE pc[c] \in {"verifying", "backing_up"}
  <2>1. /\ Moves(c) /\ pc'[c] \in {"idle", "looking"}
        /\ stamp'[c] = "none" /\ status'[c] = "Error"
    BY <1>1, <1>2, <1>4, ReportMoves
  <2>2. pc[c] \in Filler
    BY <1>4 DEF Filler
  <2>3. /\ Untouched
        /\ \/ UNCHANGED backups
           \/ \E f \in left[c] :
                backups' = [backups EXCEPT ![stamp[c]] = With(backups[stamp[c]], f, "cut")]
    BY <1>4 DEF Fails
  <2> QED BY <1>1, <2>1, <2>2, <2>3, GivesUp
<1> QED
  BY <1>3, <1>4 DEF Fails

LEMMA KillInv ==
    ASSUME IInv, NEW c \in Commands, Kill(c)
    PROVE  IInv'
PROOF
<1>1. /\ pc[c] # "idle"
      /\ pc' = [pc EXCEPT ![c] = "idle"]
      /\ todo' = [todo EXCEPT ![c] = 0]
      /\ left' = [left EXCEPT ![c] = {}]
      /\ status' = [status EXCEPT ![c] = "killed"]
      /\ stamp' = [stamp EXCEPT ![c] = "none"]
      /\ UNCHANGED <<visits, shared, user>>
  BY DEF Kill
<1>2. TypeOK /\ dest \in Dir /\ left[c] \subseteq Files /\ visits' \in 0 .. MaxVisits
  BY <1>1 DEF IInv, TypeOK
<1>3. /\ pc'[c] = "idle" /\ stamp'[c] = "none" /\ status'[c] = "killed"
      /\ todo'[c] = 0 /\ 0 \in 0 .. MaxVisits
  BY <1>1, <1>2, BoundsAssumption DEF TypeOK
<1>4. Moves(c)
  <2>1. Placed(c)'
    BY <1>3 DEF Placed
  <2>2. "idle" \in Phase /\ "killed" \in Status
    BY DEF Phase, Status
  <2>3. /\ pc' \in [Commands -> Phase]
        /\ left' \in [Commands -> SUBSET Files]
        /\ todo' \in [Commands -> 0 .. MaxVisits]
        /\ stamp' \in [Commands -> Stamps \cup {"none"}]
        /\ status' \in [Commands -> Status]
    BY <1>1, <1>2, <1>3, <2>2 DEF TypeOK
  <2>4. \A d \in Commands \ {c} :
         /\ pc'[d] = pc[d] /\ stamp'[d] = stamp[d] /\ left'[d] = left[d]
         /\ status'[d] = status[d] /\ todo'[d] = todo[d]
    BY <1>1, <1>2 DEF TypeOK
  <2> QED BY <2>1, <2>3, <2>4 DEF Moves
<1>5. CASE pc[c] \in Replacing
  <2>1. UNCHANGED backups
    BY <1>5 DEF Kill, Replacing
  <2>2. PICK dir \in Dir : Change(c, dir) \/ (Untouched /\ dir = dest)
    BY <1>2, <1>5, CutDir DEF Kill, Replacing
  <2>3. Sees(c) /\ Remembers(c) /\ dest' = dir
    BY <1>2, <2>2, ChangeSees, UntouchedSees
  <2>4. Ordinary(c)
    BY <1>1, <1>2, <1>3, <1>4, <1>5, <2>1, <2>3, SteadyOrdinary DEF Filler
  <2> QED BY <1>3, <1>5, <2>3, <2>4, StopsReplacing
<1>6. CASE pc[c] \in Filler \cup {"checking"}
  <2>1. /\ Untouched
        /\ \/ UNCHANGED backups
           \/ /\ pc[c] \in Filler
              /\ \E f \in left[c] :
                  backups' = [backups EXCEPT ![stamp[c]] = With(backups[stamp[c]], f, "cut")]
    BY <1>6 DEF Kill, Filler
  <2> QED BY <1>1, <1>3, <1>4, <1>6, <2>1, GivesUp
<1>7. CASE pc[c] = "looking"
  <2>1. Untouched /\ UNCHANGED backups
    BY <1>7 DEF Kill
  <2>2. Sees(c) /\ Remembers(c) /\ dest' = dest
    BY <1>2, <2>1, UntouchedSees
  <2>3. Ordinary(c)
    BY <1>1, <1>2, <1>3, <1>4, <2>1, <2>2, SteadyOrdinary DEF Filler
  <2> QED BY <1>3, <1>7, <2>2, <2>3, Waits
<1>8. pc[c] \in Phase
  BY <1>2 DEF TypeOK
<1> QED
  BY <1>1, <1>5, <1>6, <1>7, <1>8 DEF Phase, Filler, Replacing

LEMMA SaveInv ==
    ASSUME IInv, Save
    PROVE  IInv'
PROOF
<1>1. /\ saves < MaxSaves /\ saves' = saves + 1
      /\ raced' = (\E c \in Commands : pc[c] \notin {"idle", "looking", "checking"})
      /\ disturbed' = [c \in Commands |-> TRUE]
      /\ base' = [c \in Commands |-> Absent]
      /\ UNCHANGED <<backups, pc, todo, stamp, left, status, visits, shared>>
  BY DEF Save
<1>2. PICK dir \in UserDirs : dest' = dir /\ saved' = dir
  BY DEF Save
<1>3. TypeOK'
  <2>1. dest' \in Dir /\ saved' \in Dir
    BY <1>2, UserDirsAssumption
  <2>2. saves' \in 0 .. MaxSaves
    BY <1>1, BoundsAssumption DEF IInv, TypeOK
  <2>3. raced' \in BOOLEAN
    BY <1>1
  <2>4. disturbed' \in [Commands -> BOOLEAN] /\ base' \in [Commands -> Dir]
    BY <1>1, AbsentEmpty
  <2>5. \A c \in Commands : Placed(c)'
    BY <1>1 DEF IInv, TypeOK, Placed
  <2> QED BY <1>1, <2>1, <2>2, <2>3, <2>4, <2>5 DEF IInv, TypeOK
<1>4. Apart'
  BY <1>1 DEF IInv, Apart
<1>5. Recovering'
  BY <1>2, HoldsItself DEF Recovering
<1>6. ASSUME NEW c \in Commands, pc'[c] \in Replacing \cup Filler PROVE raced'
  BY <1>1, <1>6 DEF Replacing, Filler
<1>7. SafeWindow' /\ Filling'
  BY <1>6 DEF SafeWindow, Filling
<1>8. ASSUME NEW c \in Commands PROVE Local(c)'
  BY <1>1 DEF Local
<1> QED
  BY <1>3, <1>4, <1>5, <1>7, <1>8 DEF IInv

LEMMA InitInv ==
    ASSUME Init
    PROVE  IInv
PROOF
<1>1. /\ dest \in UserDirs /\ saved = dest
      /\ backups = [s \in Stamps |-> Absent]
      /\ pc = [c \in Commands |-> "idle"]
      /\ todo = [c \in Commands |-> 0]
      /\ stamp = [c \in Commands |-> "none"]
      /\ left = [c \in Commands |-> {}]
      /\ status = [c \in Commands |-> "none"]
      /\ visits = 0 /\ saves = 0 /\ raced = FALSE /\ shared = FALSE
      /\ base = [c \in Commands |-> Absent]
      /\ disturbed = [c \in Commands |-> FALSE]
  BY DEF Init
<1>2. /\ "idle" \in Phase /\ "none" \in Status
      /\ 0 \in 0 .. MaxVisits /\ 0 \in 0 .. MaxSaves
  BY BoundsAssumption DEF Phase, Status
<1>3. \A c \in Commands : Placed(c)
  BY <1>1 DEF Placed
<1>4. dest \in Dir /\ saved \in Dir
  BY <1>1, UserDirsAssumption
<1>5. TypeOK
  BY <1>1, <1>2, <1>3, <1>4, AbsentEmpty DEF TypeOK
<1>6. Apart
  BY <1>1 DEF Apart
<1>7. Recovering
  BY <1>1, HoldsItself DEF Recovering
<1>8. SafeWindow /\ Filling
  BY <1>1 DEF SafeWindow, Filling, Replacing, Filler
<1>9. ASSUME NEW c \in Commands PROVE Local(c)
  <2>1. pc[c] = "idle" /\ status[c] = "none" /\ base[c] = Absent
    BY <1>1
  <2>2. Secure(base[c])
    BY <2>1, AbsentEmpty DEF Secure, SecureIn
  <2>3. Undisturbed(c)
    BY <2>1 DEF Undisturbed, Underway, Filler, Replacing
  <2>4. Reported(c)
    BY <2>1, <2>2 DEF Reported
  <2> QED BY <2>3, <2>4 DEF Local
<1> QED
  BY <1>5, <1>6, <1>7, <1>8, <1>9 DEF IInv

LEMMA StutterInv ==
    ASSUME IInv, UNCHANGED vars
    PROVE  IInv'
PROOF
<1>1. UNCHANGED <<dest, backups, pc, todo, stamp, left, status, visits, saves,
                  saved, raced, shared, base, disturbed>>
  BY DEF vars
<1>2. TypeOK'
  BY <1>1 DEF IInv, TypeOK, Placed
<1>3. Apart'
  BY <1>1 DEF IInv, Apart
<1>4. \A original : Secure(original) => Secure(original)'
  BY <1>1 DEF Secure, SecureIn, SettledIn
<1>5. Secure(saved) = Secure(saved)'
  BY <1>1 DEF Secure, SecureIn, SettledIn, RegularFiles, Holds
<1>6. Recovering' /\ SafeWindow'
  BY <1>1, <1>5 DEF IInv, Recovering, SafeWindow, Holds, RegularFiles
<1>7. Filling'
  BY <1>1, <1>5 DEF IInv, Filling, Filled, RegularFiles
<1>8. ASSUME NEW c \in Commands PROVE Local(c)'
  <2>1. Secure(base[c]) = Secure(base[c])'
    BY <1>1 DEF Secure, SecureIn, SettledIn, RegularFiles, Holds
  <2>2. Filled(c, base[c]) = Filled(c, base[c])'
    BY <1>1 DEF Filled, RegularFiles
  <2>3. Undisturbed(c) => Undisturbed(c)'
    BY <1>1, <2>1, <2>2 DEF Undisturbed, Underway
  <2>4. Reported(c) => Reported(c)'
    BY <1>1, <2>1 DEF Reported
  <2> QED BY <1>1, <2>3, <2>4 DEF IInv, Local
<1> QED
  BY <1>2, <1>3, <1>6, <1>7, <1>8 DEF IInv

LEMMA NextInv ==
    ASSUME IInv, [Next]_vars
    PROVE  IInv'
PROOF
<1>1. ASSUME NEW c \in Commands, Command(c) PROVE IInv'
  BY <1>1, StartInv, LookInv, CheckInv, BackUpFileInv, VerifyInv, ClearInv,
     MakeDirInv, CopyFileInv, FinishInv, CopyFailsInv, RestoredInv, FailsInv DEF Command
<1>2. ASSUME NEW c \in Commands, Kill(c) PROVE IInv'
  BY <1>2, KillInv
<1>3. CASE Save
  BY <1>3, SaveInv
<1>4. CASE UNCHANGED vars
  BY <1>4, StutterInv
<1> QED
  BY <1>1, <1>2, <1>3, <1>4 DEF Next

-----------------------------------------------------------------------------
(* The theorems. *)

THEOREM Invariance == Spec => []IInv
PROOF
<1>1. Init => IInv
  BY InitInv
<1>2. IInv /\ [Next]_vars => IInv'
  BY NextInv
<1> QED
  BY <1>1, <1>2, PTL DEF Spec

\* Every variable keeps its type, a command that fills, verifies, clears,
\* wipes or restores has a backup's name to work with, and nothing is left to
\* copy when a backup is verified (cli.rs:1717-1764).
THEOREM TypeCorrect == Spec => []TypeOK
PROOF
<1>1. IInv => TypeOK
  BY DEF IInv
<1> QED
  BY <1>1, Invariance, PTL

LEMMA SecureKept ==
    ASSUME IInv, NEW original, Secure(original)
    PROVE  shared \/ Kept(original)
PROOF
<1>1. CASE RegularFiles(original) = {}
  <2>1. PICK s \in Stamps : TRUE
    BY StampsAssumption
  <2>2. Holds(backups[s], original)
    BY <1>1 DEF Holds
  <2> QED BY <2>2 DEF Kept
<1>2. CASE RegularFiles(original) # {}
  BY <1>2 DEF Secure, SecureIn, Kept
<1> QED
  BY <1>1, <1>2

\* The user's last version is in the destination or in a backup, whatever
\* fails, is killed, is run again or runs beside it, unless it was edited
\* while being replaced or two backups took one name (cli.rs:1720-1738).
THEOREM LastEditRecoverable == Spec => []Recoverable
PROOF
<1>1. IInv => Recoverable
  BY SecureKept DEF IInv, Recovering, Recoverable
<1> QED
  BY <1>1, Invariance, PTL

\* What a target that nobody disturbed reports is what it leaves
\* (cli.rs:1712-1764, 1785-1812).
THEOREM ReportsAreTrue == Spec => []ReportedAsLeft
PROOF
<1>1. ASSUME IInv, NEW c \in Commands, pc[c] \in {"idle", "looking"}, ~disturbed[c]
      PROVE  /\ status[c] \in {"AlreadyPresent", "Installed"} => dest = Source
             /\ shared \/ Holds(dest, base[c]) \/ Kept(base[c])
  <2>1. Reported(c)
    BY <1>1 DEF IInv, Local
  <2> QED BY <1>1, <2>1, SecureKept DEF Reported
<1>2. IInv => ReportedAsLeft
  BY <1>1 DEF ReportedAsLeft
<1> QED
  BY <1>2, Invariance, PTL

=============================================================================
