------------------------ MODULE ConfigInstall_proofs ------------------------
(***************************************************************************)
(* What an edit of a configuration file promises, for any number of        *)
(* commands running at once, of runs, kills, failures and saves.           *)
(*                                                                         *)
(* The inductive invariant has two parts beside the types.  SafeWindow     *)
(* ties the user's last save to the backups: a command that may touch the  *)
(* file has put it there first.  Local(p) follows a command nobody has     *)
(* disturbed from what it found to what it reports.                        *)
(***************************************************************************)
EXTENDS ConfigInstall, TLAPS

Safe(text) == text \in backups \cup {Absent}

SafeWindow ==
    \A p \in Installers : pc[p] \in Window => raced \/ Safe(saved)

\* The backup of a command is there while it may still need it.
BackedUp(p) ==
    /\ pc[p] \in Window => Safe(bak[p])
    /\ pc[p] = "failed" => bak[p] # Absent

\* An undisturbed command has before it the file it found, or has its backup.
Undisturbed(p) ==
    ~disturbed[p] =>
        /\ pc[p] \in {"found", "creating", "asking", "confirmed", "backed_up"} =>
             dest = base[p]
        /\ pc[p] \in Window => bak[p] = base[p]
        /\ pc[p] \in {"asking", "confirmed", "backed_up"} /\ mode[p] # "force" =>
             base[p] \notin Unmergeable /\ Winkit \notin base[p].entries

\* What AllOrNothing says of one command.
Reported(p) ==
    pc[p] = "idle" /\ ~disturbed[p] =>
        /\ result[p] = "installed" => dest = merged[p]
        /\ result[p] \in CutOff => base[p] \in backups \cup {dest, Absent}
        /\ result[p] \notin CutOff \cup {"installed"} => dest = base[p]

Creating(p) == pc[p] = "creating" => mode[p] = "fresh"

Local(p) == BackedUp(p) /\ Undisturbed(p) /\ Reported(p) /\ Creating(p)

IInv ==
    /\ TypeOK
    /\ Recoverable
    /\ SafeWindow
    /\ \A p \in Installers : Local(p)

-----------------------------------------------------------------------------
(* Texts, and the small steps every action is made of. *)

LEMMA Texts ==
    /\ {Absent, Empty, Broken, Misfit, Template} \subseteq Text
    /\ Empty # Absent /\ Broken # Absent
    /\ Absent \notin Unmergeable /\ Winkit \notin Absent.entries
    /\ Template.kind = "config" /\ Winkit \in Template.entries
PROOF
<1>1. Template \in Text
  <2>1. {Winkit} \in SUBSET (Others \cup {Winkit})
    OBVIOUS
  <2> QED BY <2>1 DEF Template, Config, Text
<1>2. {Absent, Empty, Broken, Misfit} \subseteq Text
  BY DEF Text
<1>3. Empty # Absent /\ Broken # Absent /\ Absent \notin Unmergeable
      /\ Winkit \notin Absent.entries
  BY DEF Empty, Absent, Broken, Misfit, Unmergeable, Bare
<1>4. Template.kind = "config" /\ Winkit \in Template.entries
  BY DEF Template, Config
<1> QED
  BY <1>1, <1>2, <1>3, <1>4

\* What is cut off is a text, and there is a file.
LEMMA CutOffIsText ==
    ASSUME NEW text \in Text
    PROVE  CutOffText(text) \subseteq Text \ {Absent}
PROOF
<1> SUFFICES ASSUME NEW left \in CutOffText(text)
             PROVE  left \in Text /\ left # Absent
  OBVIOUS
<1>1. CASE left \in {Empty, Broken}
  BY <1>1, Texts
<1>2. CASE left \notin {Empty, Broken}
  <2>1. PICK first \in (SUBSET text.entries) \ {text.entries} :
          left = Config(first, text.layout)
    BY <1>2 DEF CutOffText
  <2>2. text.entries # {}
    BY <2>1
  <2>3. /\ text.entries \in SUBSET (Others \cup {Winkit})
        /\ text.layout \in {"users", "printed"}
    BY <2>2 DEF Text, Absent, Empty, Broken, Misfit, Bare
  <2>4. left = [kind |-> "config", entries |-> first, layout |-> text.layout]
    BY <2>1 DEF Config
  <2>5. left \in [kind : {"config"}, entries : SUBSET (Others \cup {Winkit}),
                 layout : {"users", "printed"}]
    BY <2>1, <2>3, <2>4
  <2>6. left # Absent
    BY <2>4 DEF Absent, Bare
  <2> QED
    BY <2>5, <2>6 DEF Text
<1> QED
  BY <1>1, <1>2

\* A merge adds the entry and keeps every other.
LEMMA MergedText ==
    ASSUME NEW text \in Text
    PROVE  /\ Merged(text) \in Text
           /\ Merged(text).kind = "config"
           /\ Merged(text).entries = text.entries \cup {Winkit}
PROOF
<1>1. text.entries \in SUBSET (Others \cup {Winkit})
  BY DEF Text, Absent, Empty, Broken, Misfit, Bare
<1>2. Merged(text) = [kind |-> "config", entries |-> text.entries \cup {Winkit},
                      layout |-> "printed"]
  BY DEF Merged, Config
<1>3. text.entries \cup {Winkit} \in SUBSET (Others \cup {Winkit})
  BY <1>1
<1>4. Merged(text) \in [kind : {"config"}, entries : SUBSET (Others \cup {Winkit}),
                        layout : {"users", "printed"}]
  BY <1>2, <1>3
<1> QED
  BY <1>2, <1>4 DEF Text

LEMMA GotoFacts ==
    ASSUME TypeOK, NEW p \in Installers, NEW phase, Goto(p, phase)
    PROVE  /\ pc'[p] = phase
           /\ \A q \in Installers \ {p} : pc'[q] = pc[q]
           /\ result' = result
PROOF
  BY DEF TypeOK, Goto

LEMMA EndFacts ==
    ASSUME TypeOK, NEW p \in Installers, NEW how, End(p, how)
    PROVE  /\ pc'[p] = "idle"
           /\ result'[p] = how
           /\ \A q \in Installers \ {p} : pc'[q] = pc[q] /\ result'[q] = result[q]
PROOF
  BY DEF TypeOK, End

LEMMA OverwriteFacts ==
    ASSUME TypeOK, NEW p \in Installers, NEW text, Overwrite(p, text)
    PROVE  /\ dest' = text
           /\ disturbed'[p] = disturbed[p]
           /\ \A q \in Installers \ {p} : disturbed'[q] = TRUE
PROOF
  BY DEF TypeOK, Overwrite

\* What a step of command p leaves alone, and what it may do to the file only
\* from behind its backup.
Frame(p) ==
    /\ \A q \in Installers \ {p} :
        /\ pc'[q] = pc[q] /\ mode'[q] = mode[q] /\ merged'[q] = merged[q]
        /\ bak'[q] = bak[q] /\ result'[q] = result[q] /\ base'[q] = base[q]
        /\ (dest' = dest /\ disturbed'[q] = disturbed[q]) \/ disturbed'[q] = TRUE
    /\ backups \subseteq backups'
    /\ UNCHANGED <<saved, raced>>
    /\ dest' # dest => pc[p] \in Window
    /\ pc'[p] \in Window => pc[p] \in Window \/ dest \in backups' \cup {Absent}

\* A command is not concerned by the steps of another.
LEMMA Elsewhere ==
    ASSUME NEW q \in Installers, Local(q),
           pc'[q] = pc[q], mode'[q] = mode[q], merged'[q] = merged[q],
           bak'[q] = bak[q], result'[q] = result[q], base'[q] = base[q],
           backups \subseteq backups',
           (dest' = dest /\ disturbed'[q] = disturbed[q]) \/ disturbed'[q] = TRUE
    PROVE  Local(q)'
PROOF
<1>1. BackedUp(q)'
  BY DEF Local, BackedUp, Safe
<1>2. Creating(q)'
  BY DEF Local, Creating
<1>3. CASE disturbed'[q] = TRUE
  <2>1. Undisturbed(q)' /\ Reported(q)'
    BY <1>3 DEF Undisturbed, Reported
  <2> QED BY <1>1, <1>2, <2>1 DEF Local
<1>4. CASE dest' = dest /\ disturbed'[q] = disturbed[q]
  <2>1. Undisturbed(q)'
    BY <1>4 DEF Local, Undisturbed
  <2>2. Reported(q)'
    BY <1>4 DEF Local, Reported
  <2> QED BY <1>1, <1>2, <2>1, <2>2 DEF Local
<1> QED
  BY <1>3, <1>4

\* So a step preserves the invariant if it respects the frame and its own
\* command's part.
LEMMA Combine ==
    ASSUME IInv, TypeOK', NEW p \in Installers, Frame(p), Local(p)'
    PROVE  IInv'
PROOF
<1>1. Recoverable'
  <2>1. CASE dest' = dest
    BY <2>1 DEF IInv, Recoverable, Frame
  <2>2. CASE dest' # dest
    <3>1. raced \/ Safe(saved)
      BY <2>2 DEF IInv, SafeWindow, Frame
    <3> QED BY <3>1 DEF Safe, Recoverable, Frame
  <2> QED BY <2>1, <2>2
<1>2. SafeWindow'
  <2> SUFFICES ASSUME NEW q \in Installers, pc'[q] \in Window
               PROVE  raced' \/ Safe(saved)'
    BY DEF SafeWindow
  <2>1. CASE pc[q] \in Window
    <3>1. raced \/ Safe(saved)
      BY <2>1 DEF IInv, SafeWindow
    <3> QED BY <3>1 DEF Safe, Frame
  <2>2. CASE pc[q] \notin Window
    <3>1. q = p /\ dest \in backups' \cup {Absent}
      BY <2>2 DEF Frame
    <3>2. raced \/ saved \in backups \cup {dest, Absent}
      BY DEF IInv, Recoverable
    <3> QED BY <3>1, <3>2 DEF Safe, Frame
  <2> QED BY <2>1, <2>2
<1>3. ASSUME NEW q \in Installers PROVE Local(q)'
  <2>1. CASE q = p
    BY <2>1
  <2>2. CASE q # p
    <3>1. Local(q)
      BY DEF IInv
    <3>2. /\ pc'[q] = pc[q] /\ mode'[q] = mode[q] /\ merged'[q] = merged[q]
          /\ bak'[q] = bak[q] /\ result'[q] = result[q] /\ base'[q] = base[q]
          /\ (dest' = dest /\ disturbed'[q] = disturbed[q]) \/ disturbed'[q] = TRUE
          /\ backups \subseteq backups'
      BY <2>2 DEF Frame
    <3> QED BY <3>1, <3>2, Elsewhere
  <2> QED BY <2>1, <2>2
<1> QED
  BY <1>1, <1>2, <1>3 DEF IInv

-----------------------------------------------------------------------------
(* Types. *)

\* The texts a command is about to write hold the entry.
Prepared(p) ==
    pc[p] \in Window \cup {"creating", "asking", "confirmed"} =>
        merged[p].kind = "config" /\ Winkit \in merged[p].entries

LEMMA TypeGoto ==
    ASSUME TypeOK, NEW p \in Installers, NEW phase \in Phase, Goto(p, phase)
    PROVE  /\ pc' \in [Installers -> Phase]
           /\ result' \in [Installers -> Result]
PROOF
  BY DEF TypeOK, Goto

LEMMA TypeEnd ==
    ASSUME TypeOK, NEW p \in Installers, NEW how \in Result, End(p, how)
    PROVE  /\ pc' \in [Installers -> Phase]
           /\ result' \in [Installers -> Result]
PROOF
  BY DEF TypeOK, End, Phase

LEMMA TypeOverwrite ==
    ASSUME TypeOK, NEW p \in Installers, NEW text \in Text, Overwrite(p, text)
    PROVE  dest' \in Text /\ disturbed' \in [Installers -> BOOLEAN]
PROOF
  BY DEF TypeOK, Overwrite

\* A step that moves only the command's own place keeps the types.
LEMMA TypeMove ==
    ASSUME TypeOK, NEW p \in Installers,
           \/ \E how \in Result : End(p, how)
           \/ \E phase \in Phase : Goto(p, phase) /\ (Prepared(p) => Prepared(p)')
                                   /\ (pc[p] \in {"found", "idle"} => Prepared(p)'),
           backups' \subseteq Text \ {Absent},
           dest' \in Text, disturbed' \in [Installers -> BOOLEAN],
           mode' \in [Installers -> Mode],
           merged' \in [Installers -> Text], bak' \in [Installers -> Text],
           \A q \in Installers \ {p} : merged'[q] = merged[q],
           UNCHANGED <<runs, base, user>>
    PROVE  TypeOK'
PROOF
<1>1. pc' \in [Installers -> Phase] /\ result' \in [Installers -> Result]
  BY TypeGoto, TypeEnd
<1>2. \A q \in Installers \ {p} : pc'[q] = pc[q]
  BY GotoFacts, EndFacts
<1>3. ASSUME NEW q \in Installers PROVE Prepared(q)'
  <2>1. CASE q # p
    <3>1. Prepared(q)
      BY DEF TypeOK, Prepared
    <3> QED BY <1>2, <2>1, <3>1 DEF Prepared
  <2>2. CASE q = p /\ \E how \in Result : End(p, how)
    <3>1. pc'[q] = "idle"
      BY <2>2, EndFacts
    <3> QED BY <3>1 DEF Prepared, Window
  <2>3. CASE q = p /\ \E phase \in Phase : Goto(p, phase) /\ (Prepared(p) => Prepared(p)')
    <3>1. Prepared(p)
      BY DEF TypeOK, Prepared
    <3> QED BY <2>3, <3>1
  <2> QED BY <2>1, <2>2, <2>3
<1>4. /\ runs' \in 0 .. MaxRuns /\ saves' \in 0 .. MaxSaves /\ saved' \in Text
      /\ raced' \in BOOLEAN /\ base' \in [Installers -> Text]
  BY DEF TypeOK, user
<1> QED
  BY <1>1, <1>3, <1>4 DEF TypeOK, Prepared

-----------------------------------------------------------------------------
(* The steps of a command, one lemma for each. *)

LEMMA StartInv == ASSUME IInv, NEW p \in Installers, Start(p) PROVE IInv'
PROOF
<1> USE DEF IInv
<1>1. PICK m \in Request : mode' = [mode EXCEPT ![p] = m]
  BY DEF Start
<1>2. /\ pc[p] = "idle" /\ runs < MaxRuns /\ runs' = runs + 1
      /\ merged' = [merged EXCEPT ![p] = Absent]
      /\ bak' = [bak EXCEPT ![p] = Absent]
      /\ base' = [base EXCEPT ![p] = dest]
      /\ disturbed' = [disturbed EXCEPT ![p] = FALSE]
      /\ pc' = [pc EXCEPT ![p] = "found"]
      /\ result' = [result EXCEPT ![p] = "none"]
      /\ UNCHANGED <<dest, backups, saves, saved, raced>>
  BY DEF Start, user
<1>3. TypeOK'
  <2>1. m \in Mode /\ "found" \in Phase /\ "none" \in Result /\ Absent \in Text
    BY Texts DEF Mode, Phase, Result
  <2>2. runs' \in 0 .. MaxRuns
    BY <1>2, BoundsAssumption DEF TypeOK
  <2>3. ASSUME NEW q \in Installers PROVE Prepared(q)'
    <3>1. CASE q = p
      <4>1. pc'[q] = "found"
        BY <1>2, <3>1 DEF TypeOK
      <4> QED BY <4>1 DEF Prepared, Window
    <3>2. CASE q # p
      <4>1. pc'[q] = pc[q] /\ merged'[q] = merged[q]
        BY <1>2, <3>2 DEF TypeOK
      <4>2. Prepared(q)
        BY DEF TypeOK, Prepared
      <4> QED BY <4>1, <4>2 DEF Prepared
    <3> QED BY <3>1, <3>2
  <2> QED BY <1>1, <1>2, <2>1, <2>2, <2>3 DEF TypeOK, Prepared
<1>4. pc'[p] = "found" /\ base'[p] = dest /\ dest' = dest
  BY <1>2 DEF TypeOK
<1>5. Frame(p)
  BY <1>1, <1>2, <1>4 DEF Frame, TypeOK, Window
<1>6. Local(p)'
  <2>1. BackedUp(p)' /\ Reported(p)' /\ Creating(p)'
    BY <1>4 DEF BackedUp, Reported, Creating, Window
  <2>2. Undisturbed(p)'
    BY <1>4 DEF Undisturbed, Window
  <2> QED BY <2>1, <2>2 DEF Local
<1> QED
  BY <1>3, <1>5, <1>6, Combine

\* A run that ends with the file as it was.
LEMMA EndUntouched ==
    ASSUME IInv, NEW p \in Installers, NEW how \in Result, End(p, how),
           how # "installed",
           pc[p] \in {"found", "creating", "asking", "confirmed"},
           UNCHANGED <<mode, merged, bak, runs, base, user, dest, disturbed>>,
           backups \subseteq backups', backups' \subseteq Text \ {Absent}
    PROVE  IInv'
PROOF
<1> USE DEF IInv
<1>1. /\ pc'[p] = "idle" /\ result'[p] = how
      /\ \A q \in Installers \ {p} : pc'[q] = pc[q] /\ result'[q] = result[q]
  BY EndFacts
<1>2. TypeOK'
  <2>1. /\ dest' \in Text /\ disturbed' \in [Installers -> BOOLEAN]
        /\ mode' \in [Installers -> Mode]
        /\ merged' \in [Installers -> Text] /\ bak' \in [Installers -> Text]
        /\ \A q \in Installers \ {p} : merged'[q] = merged[q]
    BY DEF TypeOK
  <2> QED BY <2>1, TypeMove
<1>3. Frame(p)
  BY <1>1 DEF Frame, user, Window
<1>4. Undisturbed(p)
  BY DEF Local
<1>5. Local(p)'
  BY <1>1, <1>4 DEF Local, BackedUp, Undisturbed, Reported, Creating, Window
<1> QED
  BY <1>2, <1>3, <1>5, Combine

LEMMA ListInv == ASSUME IInv, NEW p \in Installers, List(p) PROVE IInv'
PROOF
<1>1. /\ pc[p] = "found" /\ End(p, "listed")
      /\ UNCHANGED <<backups, mode, merged, bak, runs, base, user, dest, disturbed>>
  BY DEF List, Untouched
<1>2. "listed" \in Result /\ "listed" # "installed"
  BY DEF Result
<1>3. backups' \subseteq Text \ {Absent}
  BY <1>1 DEF IInv, TypeOK
<1> QED
  BY <1>1, <1>2, <1>3, EndUntouched

LEMMA TakeTemplateInv ==
    ASSUME IInv, NEW p \in Installers, TakeTemplate(p) PROVE IInv'
PROOF
<1> USE DEF IInv
<1>1. /\ pc[p] = "found" /\ merged' = [merged EXCEPT ![p] = Template]
      /\ UNCHANGED <<backups, bak, runs, base, saves, saved, raced, dest, disturbed>>
      /\ mode[p] = "force" \/ (mode[p] = "init" /\ dest = Absent)
      /\ \/ /\ dest = Absent
            /\ mode' = [mode EXCEPT ![p] = "fresh"]
            /\ Goto(p, "creating")
         \/ /\ dest # Absent
            /\ UNCHANGED mode
            /\ Goto(p, "confirmed")
  BY DEF TakeTemplate, Untouched, user
<1>2. PICK phase \in {"creating", "confirmed"} : Goto(p, phase)
  BY <1>1
<1>3. /\ pc'[p] = phase /\ result' = result
      /\ \A q \in Installers \ {p} : pc'[q] = pc[q]
  BY <1>2, GotoFacts
<1>4. /\ merged'[p] = Template
      /\ \A q \in Installers \ {p} : merged'[q] = merged[q] /\ mode'[q] = mode[q]
  BY <1>1 DEF TypeOK
<1>5. TypeOK'
  <2>1. phase \in Phase /\ "fresh" \in Mode
    BY DEF Phase, Mode
  <2>2. /\ mode' \in [Installers -> Mode] /\ merged' \in [Installers -> Text]
        /\ bak' \in [Installers -> Text]
        /\ dest' \in Text /\ disturbed' \in [Installers -> BOOLEAN]
        /\ backups' \subseteq Text \ {Absent}
    BY <1>1, <2>1, Texts DEF TypeOK
  <2>3. Prepared(p)'
    BY <1>4, Texts DEF Prepared
  <2> QED BY <1>1, <1>2, <1>4, <2>1, <2>2, <2>3, TypeMove DEF user
<1>6. Frame(p)
  BY <1>1, <1>3, <1>4 DEF Frame, Window
<1>7. Undisturbed(p)
  BY DEF Local
<1>8. Local(p)'
  <2>1. CASE dest = Absent
    <3>1. pc'[p] = "creating" /\ mode'[p] = "fresh"
      BY <1>1, <2>1, GotoFacts DEF TypeOK
    <3> QED BY <1>1, <1>7, <3>1 DEF Local, BackedUp, Undisturbed, Reported, Creating, Window
  <2>2. CASE dest # Absent
    <3>1. pc'[p] = "confirmed" /\ mode'[p] = "force"
      BY <1>1, <2>2, GotoFacts
    <3> QED BY <1>1, <1>7, <3>1 DEF Local, BackedUp, Undisturbed, Reported, Creating, Window
  <2> QED BY <2>1, <2>2
<1> QED
  BY <1>5, <1>6, <1>8, Combine

LEMMA ReadAndMergeInv ==
    ASSUME IInv, NEW p \in Installers, ReadAndMerge(p) PROVE IInv'
PROOF
<1> USE DEF IInv
<1>1. /\ pc[p] = "found"
      /\ UNCHANGED <<backups, mode, bak, runs, base, user, dest, disturbed>>
  BY DEF ReadAndMerge, Untouched
<1>2. backups' \subseteq Text \ {Absent} /\ backups \subseteq backups'
  BY <1>1 DEF TypeOK
<1>3. CASE \E how \in {"unreadable", "skipped", "registered"} :
              End(p, how) /\ UNCHANGED merged
  <2>1. PICK how \in {"unreadable", "skipped", "registered"} :
            End(p, how) /\ UNCHANGED merged
    BY <1>3
  <2>2. how \in Result /\ how # "installed"
    BY DEF Result
  <2> QED BY <1>1, <1>2, <2>1, <2>2, EndUntouched
<1>4. CASE /\ dest \notin Unmergeable
           /\ Winkit \notin dest.entries
           /\ merged' = [merged EXCEPT ![p] = Merged(dest)]
           /\ Goto(p, IF mode[p] = "install" THEN "asking" ELSE "confirmed")
  <2>1. PICK phase \in {"asking", "confirmed"} : Goto(p, phase)
    BY <1>4
  <2>2. /\ pc'[p] = phase /\ result' = result
        /\ \A q \in Installers \ {p} : pc'[q] = pc[q]
    BY <2>1, GotoFacts
  <2>3. /\ merged'[p] = Merged(dest)
        /\ \A q \in Installers \ {p} : merged'[q] = merged[q]
    BY <1>4 DEF TypeOK
  <2>4. dest \in Text
    BY DEF TypeOK
  <2>5. TypeOK'
    <3>1. phase \in Phase
      BY DEF Phase
    <3>2. /\ mode' \in [Installers -> Mode] /\ merged' \in [Installers -> Text]
          /\ bak' \in [Installers -> Text]
          /\ dest' \in Text /\ disturbed' \in [Installers -> BOOLEAN]
      BY <1>1, <1>4, <2>4, MergedText DEF TypeOK
    <3>3. Prepared(p)'
      BY <2>3, <2>4, MergedText DEF Prepared
    <3> QED BY <1>1, <1>2, <2>1, <2>3, <3>1, <3>2, <3>3, TypeMove
  <2>6. Frame(p)
    BY <1>1, <2>2, <2>3 DEF Frame, Window, user
  <2>7. Undisturbed(p)
    BY DEF Local
  <2>8. Local(p)'
    BY <1>1, <1>4, <2>2, <2>7
       DEF Local, BackedUp, Undisturbed, Reported, Creating, Window
  <2> QED BY <2>5, <2>6, <2>8, Combine
<1> QED
  BY <1>3, <1>4 DEF ReadAndMerge

\* Going on to "confirmed", with the file as it was.
LEMMA ConfirmInv ==
    ASSUME IInv, NEW p \in Installers, Goto(p, "confirmed"),
           \/ pc[p] = "asking"
           \/ pc[p] = "creating" /\ dest = Absent,
           UNCHANGED <<backups, mode, merged, bak, runs, base, user, dest, disturbed>>
    PROVE  IInv'
PROOF
<1> USE DEF IInv
<1>1. /\ pc'[p] = "confirmed" /\ result' = result
      /\ \A q \in Installers \ {p} : pc'[q] = pc[q]
  BY GotoFacts
<1>2. TypeOK'
  <2>1. "confirmed" \in Phase
    BY DEF Phase
  <2>2. /\ mode' \in [Installers -> Mode] /\ merged' \in [Installers -> Text]
        /\ bak' \in [Installers -> Text]
        /\ dest' \in Text /\ disturbed' \in [Installers -> BOOLEAN]
        /\ backups' \subseteq Text \ {Absent}
        /\ \A q \in Installers \ {p} : merged'[q] = merged[q]
    BY DEF TypeOK
  <2>3. Prepared(p) => Prepared(p)'
    BY DEF Prepared
  <2> QED BY <2>1, <2>2, <2>3, TypeMove
<1>3. Frame(p)
  BY <1>1 DEF Frame, Window, user
<1>4. Undisturbed(p)
  BY DEF Local
<1>5. Absent \notin Unmergeable /\ Winkit \notin Absent.entries
  BY Texts
<1>6. Local(p)'
  BY <1>1, <1>4, <1>5 DEF Local, BackedUp, Undisturbed, Reported, Creating, Window
<1> QED
  BY <1>2, <1>3, <1>6, Combine

LEMMA AnswerInv == ASSUME IInv, NEW p \in Installers, Answer(p) PROVE IInv'
PROOF
<1>1. /\ pc[p] = "asking"
      /\ UNCHANGED <<backups, mode, merged, bak, runs, base, user, dest, disturbed>>
  BY DEF Answer, Untouched
<1>2. CASE Goto(p, "confirmed")
  BY <1>1, <1>2, ConfirmInv
<1>3. CASE End(p, "declined")
  <2>1. "declined" \in Result /\ "declined" # "installed"
    BY DEF Result
  <2>2. backups' \subseteq Text \ {Absent}
    BY <1>1 DEF IInv, TypeOK
  <2> QED BY <1>1, <1>3, <2>1, <2>2, EndUntouched
<1> QED
  BY <1>2, <1>3 DEF Answer

LEMMA CheckAgainInv ==
    ASSUME IInv, NEW p \in Installers, CheckAgain(p) PROVE IInv'
PROOF
<1>1. /\ pc[p] = "creating"
      /\ UNCHANGED <<backups, mode, merged, bak, runs, base, user, dest, disturbed>>
  BY DEF CheckAgain, Untouched
<1>2. CASE dest = Absent
  <2>1. Goto(p, "confirmed")
    BY <1>2 DEF CheckAgain
  <2> QED BY <1>1, <1>2, <2>1, ConfirmInv
<1>3. CASE dest # Absent
  <2>1. End(p, "refused")
    BY <1>3 DEF CheckAgain
  <2>2. "refused" \in Result /\ "refused" # "installed"
    BY DEF Result
  <2>3. backups' \subseteq Text \ {Absent}
    BY <1>1 DEF IInv, TypeOK
  <2> QED BY <1>1, <2>1, <2>2, <2>3, EndUntouched
<1> QED
  BY <1>2, <1>3

LEMMA BackUpInv == ASSUME IInv, NEW p \in Installers, BackUp(p) PROVE IInv'
PROOF
<1> USE DEF IInv
<1>1. /\ pc[p] = "confirmed" /\ Goto(p, "backed_up")
      /\ backups' = IF dest = Absent THEN backups ELSE backups \cup {dest}
      /\ bak' = [bak EXCEPT ![p] = dest]
      /\ UNCHANGED <<mode, merged, runs, base, user, dest, disturbed>>
  BY DEF BackUp, Untouched
<1>2. /\ pc'[p] = "backed_up" /\ result' = result
      /\ \A q \in Installers \ {p} : pc'[q] = pc[q]
  BY <1>1, GotoFacts
<1>3. /\ bak'[p] = dest
      /\ \A q \in Installers \ {p} : bak'[q] = bak[q]
      /\ dest \in backups' \cup {Absent}
      /\ backups \subseteq backups'
  BY <1>1 DEF TypeOK
<1>4. TypeOK'
  <2>1. "backed_up" \in Phase
    BY DEF Phase
  <2>2. /\ mode' \in [Installers -> Mode] /\ merged' \in [Installers -> Text]
        /\ bak' \in [Installers -> Text]
        /\ dest' \in Text /\ disturbed' \in [Installers -> BOOLEAN]
        /\ backups' \subseteq Text \ {Absent}
        /\ \A q \in Installers \ {p} : merged'[q] = merged[q]
    BY <1>1 DEF TypeOK
  <2>3. Prepared(p) => Prepared(p)'
    BY <1>1 DEF Prepared
  <2> QED BY <1>1, <2>1, <2>2, <2>3, TypeMove
<1>5. Frame(p)
  BY <1>1, <1>2, <1>3 DEF Frame, user
<1>6. Undisturbed(p)
  BY DEF Local
<1>7. Local(p)'
  BY <1>1, <1>2, <1>3, <1>6
     DEF Local, BackedUp, Undisturbed, Reported, Creating, Window, Safe
<1> QED
  BY <1>4, <1>5, <1>7, Combine

LEMMA BackUpFailsInv ==
    ASSUME IInv, NEW p \in Installers, BackUpFails(p) PROVE IInv'
PROOF
<1>1. /\ pc[p] = "confirmed" /\ End(p, "no_backup")
      /\ backups' \in {backups} \cup {backups \cup {t} : t \in CutOffText(dest)}
      /\ UNCHANGED <<mode, merged, bak, runs, base, user, dest, disturbed>>
  BY DEF BackUpFails, Untouched
<1>2. backups \subseteq backups' /\ backups' \subseteq Text \ {Absent}
  BY <1>1, CutOffIsText DEF IInv, TypeOK
<1>3. "no_backup" \in Result /\ "no_backup" # "installed"
  BY DEF Result
<1> QED
  BY <1>1, <1>2, <1>3, EndUntouched

\* What is common to the steps from behind a backup: only the file, and the
\* command's own place, may change.
LEMMA BehindBackup ==
    ASSUME IInv, NEW p \in Installers, pc[p] \in Window,
           UNCHANGED <<dest, disturbed>> \/ \E text \in Text : Overwrite(p, text),
           UNCHANGED <<backups, mode, merged, bak, runs, base, user>>,
           \/ \E how \in Result :
                /\ End(p, how)
                /\ ~disturbed[p] =>
                    /\ how = "installed" => dest' = merged[p]
                    /\ how \notin CutOff \cup {"installed"} => dest' = base[p]
           \/ Goto(p, "writing")
           \/ Goto(p, "failed") /\ bak[p] # Absent
    PROVE  IInv'
PROOF
<1> USE DEF IInv
<1>1. /\ dest' \in Text
      /\ disturbed' \in [Installers -> BOOLEAN]
      /\ disturbed'[p] = disturbed[p]
      /\ \/ dest' = dest /\ disturbed' = disturbed
         \/ \A q \in Installers \ {p} : disturbed'[q] = TRUE
  <2>1. CASE UNCHANGED <<dest, disturbed>>
    BY <2>1 DEF TypeOK
  <2>2. CASE \E text \in Text : Overwrite(p, text)
    BY <2>2, OverwriteFacts, TypeOverwrite
  <2> QED BY <2>1, <2>2
<1>2. \A q \in Installers \ {p} : pc'[q] = pc[q] /\ result'[q] = result[q]
  BY GotoFacts, EndFacts
<1>3. "writing" \in Phase /\ "failed" \in Phase
  BY DEF Phase
<1>4. TypeOK'
  <2>1. /\ mode' \in [Installers -> Mode] /\ merged' \in [Installers -> Text]
        /\ bak' \in [Installers -> Text]
        /\ backups' \subseteq Text \ {Absent}
        /\ \A q \in Installers \ {p} : merged'[q] = merged[q]
    BY DEF TypeOK
  <2>2. Prepared(p) => Prepared(p)'
    BY DEF Prepared
  <2>3. pc[p] \notin {"found", "idle"}
    BY DEF Window
  <2>4. \/ \E how \in Result : End(p, how)
        \/ \E phase \in Phase : Goto(p, phase) /\ (Prepared(p) => Prepared(p)')
                                /\ (pc[p] \in {"found", "idle"} => Prepared(p)')
    BY <1>3, <2>2, <2>3
  <2> QED BY <1>1, <2>1, <2>4, TypeMove
<1>5. Frame(p)
  BY <1>1, <1>2 DEF Frame, user
<1>6. BackedUp(p) /\ Undisturbed(p)
  BY DEF Local
<1>7. Local(p)'
  <2>1. CASE \E how \in Result : End(p, how)
    <3>1. PICK how \in Result :
            /\ End(p, how)
            /\ ~disturbed[p] =>
                /\ how = "installed" => dest' = merged[p]
                /\ how \notin CutOff \cup {"installed"} => dest' = base[p]
      BY <2>1, EndFacts, GotoFacts
    <3>2. pc'[p] = "idle" /\ result'[p] = how
      BY <3>1, EndFacts
    <3>3. ~disturbed[p] => base[p] \in backups \cup {Absent}
      BY <1>6 DEF BackedUp, Undisturbed, Safe
    <3>4. Reported(p)'
      BY <1>1, <3>1, <3>2, <3>3 DEF Reported
    <3>5. BackedUp(p)' /\ Undisturbed(p)' /\ Creating(p)'
      BY <3>2 DEF BackedUp, Undisturbed, Creating, Window
    <3> QED BY <3>4, <3>5 DEF Local
  <2>2. CASE \/ Goto(p, "writing")
             \/ Goto(p, "failed") /\ bak[p] # Absent
    <3>1. /\ pc'[p] \in {"writing", "failed"}
          /\ pc'[p] = "failed" => bak[p] # Absent
      BY <2>2, GotoFacts
    <3>2. BackedUp(p)'
      BY <1>6, <3>1 DEF BackedUp, Safe
    <3>3. Undisturbed(p)'
      BY <1>1, <1>6, <3>1 DEF Undisturbed
    <3>4. Reported(p)' /\ Creating(p)'
      BY <3>1 DEF Reported, Creating
    <3> QED BY <3>2, <3>3, <3>4 DEF Local
  <2> QED BY <2>1, <2>2
<1> QED
  BY <1>4, <1>5, <1>7, Combine

LEMMA TruncateInv == ASSUME IInv, NEW p \in Installers, Truncate(p) PROVE IInv'
PROOF
<1>1. /\ pc[p] = "backed_up" /\ Overwrite(p, Empty) /\ Goto(p, "writing")
      /\ UNCHANGED <<backups, mode, merged, bak, runs, base, user>>
  BY DEF Truncate
<1>2. pc[p] \in Window /\ Empty \in Text
  BY <1>1, Texts DEF Window
<1> QED
  BY <1>1, <1>2, BehindBackup

LEMMA WriteInv == ASSUME IInv, NEW p \in Installers, Write(p) PROVE IInv'
PROOF
<1>1. /\ pc[p] = "writing" /\ Overwrite(p, merged[p]) /\ End(p, "installed")
      /\ UNCHANGED <<backups, mode, merged, bak, runs, base, user>>
  BY DEF Write
<1>2. pc[p] \in Window /\ merged[p] \in Text /\ "installed" \in Result
  BY <1>1 DEF Window, IInv, TypeOK, Result
<1>3. dest' = merged[p]
  BY <1>1 DEF Overwrite
<1> QED
  BY <1>1, <1>2, <1>3, BehindBackup

LEMMA WriteFailsInv ==
    ASSUME IInv, NEW p \in Installers, WriteFails(p) PROVE IInv'
PROOF
<1>1. /\ pc[p] \in {"backed_up", "writing"}
      /\ Untouched \/ \E left \in CutOffText(merged[p]) : Overwrite(p, left)
      /\ \/ bak[p] # Absent /\ Goto(p, "failed")
         \/ End(p, "write_failed")
      /\ UNCHANGED <<backups, mode, merged, bak, runs, base, user>>
  BY DEF WriteFails
<1>2. pc[p] \in Window /\ CutOffText(merged[p]) \subseteq Text
  BY <1>1, CutOffIsText DEF Window, IInv, TypeOK
<1>3. "write_failed" \in Result /\ "write_failed" \in CutOff
      /\ "write_failed" # "installed"
  BY DEF Result, CutOff
<1>4. UNCHANGED <<dest, disturbed>> \/ \E text \in Text : Overwrite(p, text)
  BY <1>1, <1>2 DEF Untouched
<1> QED
  BY <1>1, <1>2, <1>3, <1>4, BehindBackup

LEMMA RestoreInv == ASSUME IInv, NEW p \in Installers, Restore(p) PROVE IInv'
PROOF
<1>1. /\ pc[p] = "failed" /\ Overwrite(p, bak[p]) /\ End(p, "restored")
      /\ UNCHANGED <<backups, mode, merged, bak, runs, base, user>>
  BY DEF Restore
<1>2. pc[p] \in Window /\ bak[p] \in Text /\ "restored" \in Result
  BY <1>1 DEF Window, IInv, TypeOK, Result
<1>3. ~disturbed[p] => dest' = base[p]
  <2>1. Undisturbed(p) /\ dest' = bak[p]
    BY <1>1 DEF IInv, Local, Overwrite
  <2> QED BY <1>2, <2>1 DEF Undisturbed
<1> QED
  BY <1>1, <1>2, <1>3, BehindBackup

LEMMA RestoreFailsInv ==
    ASSUME IInv, NEW p \in Installers, RestoreFails(p) PROVE IInv'
PROOF
<1>1. /\ pc[p] = "failed" /\ End(p, "not_restored")
      /\ Untouched \/ \E left \in CutOffText(bak[p]) : Overwrite(p, left)
      /\ UNCHANGED <<backups, mode, merged, bak, runs, base, user>>
  BY DEF RestoreFails
<1>2. pc[p] \in Window /\ CutOffText(bak[p]) \subseteq Text
  BY <1>1, CutOffIsText DEF Window, IInv, TypeOK
<1>3. "not_restored" \in Result /\ "not_restored" \in CutOff
      /\ "not_restored" # "installed"
  BY DEF Result, CutOff
<1>4. UNCHANGED <<dest, disturbed>> \/ \E text \in Text : Overwrite(p, text)
  BY <1>1, <1>2 DEF Untouched
<1> QED
  BY <1>1, <1>2, <1>3, <1>4, BehindBackup

LEMMA KillInv == ASSUME IInv, NEW p \in Installers, Kill(p) PROVE IInv'
PROOF
<1>1. /\ pc[p] # "idle" /\ End(p, "killed")
      /\ UNCHANGED <<mode, merged, bak, runs, base, user>>
  BY DEF Kill
<1>2. "killed" \in Result /\ "killed" \in CutOff /\ "killed" # "installed"
  BY DEF Result, CutOff
<1>3. CASE pc[p] \in Window
  <2>1. CutOffText(merged[p]) \subseteq Text /\ CutOffText(bak[p]) \subseteq Text
    BY CutOffIsText DEF IInv, TypeOK
  <2>3. UNCHANGED <<dest, disturbed>> \/ \E text \in Text : Overwrite(p, text)
    BY <2>1 DEF Kill, Untouched
  <2>2. UNCHANGED backups
    BY <1>3 DEF Kill, Window
  <2> QED BY <1>1, <1>2, <1>3, <2>2, <2>3, BehindBackup
<1>4. CASE pc[p] \notin Window
  <2>1. pc[p] \in {"found", "creating", "asking", "confirmed"}
    BY <1>1, <1>4 DEF IInv, TypeOK, Phase, Window
  <2>2. UNCHANGED <<dest, disturbed>>
    BY <1>4 DEF Kill, Untouched, Window
  <2>3. backups \subseteq backups' /\ backups' \subseteq Text \ {Absent}
    BY CutOffIsText DEF Kill, IInv, TypeOK
  <2> QED BY <1>1, <1>2, <2>1, <2>2, <2>3, EndUntouched
<1> QED
  BY <1>3, <1>4

-----------------------------------------------------------------------------
(* A save by the user, and the theorems. *)

LEMMA SaveInv == ASSUME IInv, Save PROVE IInv'
PROOF
<1> USE DEF IInv
<1>1. PICK t \in UserTexts : dest' = t /\ saved' = t
  BY DEF Save
<1>2. /\ saves < MaxSaves /\ saves' = saves + 1
      /\ raced' = (\E p \in Installers : pc[p] \in Window)
      /\ disturbed' = [p \in Installers |-> TRUE]
      /\ UNCHANGED <<backups, pc, mode, merged, bak, result, runs, base>>
  BY DEF Save
<1>3. TypeOK'
  <2>1. t \in Text
    BY UserTextsAssumption
  <2>2. saves' \in 0 .. MaxSaves
    BY <1>2, BoundsAssumption DEF TypeOK
  <2>3. raced' \in BOOLEAN
    BY <1>2, Zenon
  <2>4. disturbed' \in [Installers -> BOOLEAN]
    BY <1>2
  <2> QED BY <1>1, <1>2, <2>1, <2>2, <2>3, <2>4 DEF TypeOK
<1>4. Recoverable'
  BY <1>1 DEF Recoverable
<1>5. SafeWindow'
  <2> SUFFICES ASSUME NEW p \in Installers, pc'[p] \in Window PROVE raced'
    BY DEF SafeWindow
  <2>1. \E q \in Installers : pc[q] \in Window
    BY <1>2
  <2> QED BY <1>2, <2>1, Zenon
<1>6. ASSUME NEW p \in Installers PROVE Local(p)'
  <2>1. disturbed'[p] = TRUE
    BY <1>2
  <2>2. Local(p)
    OBVIOUS
  <2>3. BackedUp(p)' /\ Creating(p)'
    BY <1>2, <2>2 DEF Local, BackedUp, Creating, Safe
  <2>4. Undisturbed(p)' /\ Reported(p)'
    BY <2>1 DEF Undisturbed, Reported
  <2> QED BY <2>3, <2>4 DEF Local
<1> QED
  BY <1>3, <1>4, <1>5, <1>6

LEMMA InitInv == Init => IInv
PROOF
<1> SUFFICES ASSUME Init PROVE IInv
  OBVIOUS
<1>1. dest \in Text /\ Absent \in Text
  BY UserTextsAssumption, Texts DEF Init
<1>2. TypeOK
  <2>1. "idle" \in Phase /\ "list" \in Mode /\ "none" \in Result
    BY DEF Phase, Mode, Request, Result
  <2>2. \A p \in Installers : pc[p] = "idle"
    BY DEF Init
  <2>3. runs \in 0 .. MaxRuns /\ saves \in 0 .. MaxSaves
    BY BoundsAssumption DEF Init
  <2> QED BY <1>1, <2>1, <2>2, <2>3 DEF Init, TypeOK, Window
<1>3. Recoverable
  BY DEF Init, Recoverable
<1>4. SafeWindow
  BY DEF Init, SafeWindow, Window
<1>5. ASSUME NEW p \in Installers PROVE Local(p)
  <2>1. /\ pc[p] = "idle" /\ result[p] = "none" /\ base[p] = dest
    BY DEF Init
  <2> QED BY <2>1
          DEF Local, BackedUp, Undisturbed, Reported, Creating, Window, CutOff
<1> QED
  BY <1>2, <1>3, <1>4, <1>5 DEF IInv

LEMMA NextInv == IInv /\ [Next]_vars => IInv'
PROOF
<1> SUFFICES ASSUME IInv, [Next]_vars PROVE IInv'
  OBVIOUS
<1>1. ASSUME NEW p \in Installers, Command(p) PROVE IInv'
  BY <1>1, StartInv, ListInv, TakeTemplateInv, ReadAndMergeInv, AnswerInv,
     CheckAgainInv, BackUpInv, BackUpFailsInv, TruncateInv, WriteInv,
     WriteFailsInv, RestoreInv, RestoreFailsInv DEF Command
<1>2. ASSUME NEW p \in Installers, Kill(p) PROVE IInv'
  BY <1>2, KillInv
<1>3. CASE Save
  BY <1>3, SaveInv
<1>4. CASE UNCHANGED vars
  BY <1>4 DEF vars, user, IInv, TypeOK, Recoverable, SafeWindow, Safe, Local,
              BackedUp, Undisturbed, Reported, Creating
<1> QED
  BY <1>1, <1>2, <1>3, <1>4 DEF Next

\* The invariant holds throughout, from any file the user may start with.
THEOREM Invariance == Spec => []IInv
PROOF
<1> QED
  BY InitInv, NextInv, PTL DEF Spec

\* Every variable keeps its type, and what is about to be written always holds
\* the entry.
THEOREM TypeCorrect == Spec => []TypeOK
PROOF
<1>1. IInv => TypeOK
  BY DEF IInv
<1> QED
  BY <1>1, Invariance, PTL

\* The user's last save outlives every kill, failed write and rerun, however
\* many commands run at once.
THEOREM LastSaveRecoverable == Spec => []Recoverable
PROOF
<1>1. IInv => Recoverable
  BY DEF IInv
<1> QED
  BY <1>1, Invariance, PTL

\* An undisturbed run writes the whole merge, or nothing, or says that it left
\* the file cut off.
THEOREM RunsAreHonest == Spec => []AllOrNothing
PROOF
<1>1. IInv => AllOrNothing
  BY DEF IInv, Local, Reported, AllOrNothing
<1> QED
  BY <1>1, Invariance, PTL

\* Only a file that could be merged, and was not registered yet, is overwritten.
THEOREM NothingUnreadOverwritten == Spec => OverwritesOnlyMergeable
PROOF
<1>1. ASSUME IInv, [Next]_vars
      PROVE  [\A p \in Installers :
                pc[p] = "backed_up" /\ pc'[p] = "writing"
                  /\ mode[p] # "force" /\ ~disturbed[p] =>
                    dest \notin Unmergeable /\ Winkit \notin dest.entries]_vars
  <2>1. ASSUME NEW p \in Installers, pc[p] = "backed_up", mode[p] # "force",
               ~disturbed[p]
        PROVE  dest \notin Unmergeable /\ Winkit \notin dest.entries
    <3>1. Undisturbed(p)
      BY <1>1 DEF IInv, Local
    <3> QED BY <2>1, <3>1 DEF Undisturbed
  <2> QED BY <2>1
<1> QED
  BY <1>1, Invariance, PTL DEF Spec, OverwritesOnlyMergeable

=============================================================================
