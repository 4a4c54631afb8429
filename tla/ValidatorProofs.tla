-------------------------- MODULE ValidatorProofs ---------------------------
(***************************************************************************)
(* Theorems about Validator, for every command, whatever its words and     *)
(* patterns: TLC checks them for the commands of MCValidator only.         *)
(***************************************************************************)
EXTENDS MCValidator, TLAPS

-----------------------------------------------------------------------------
(***************************************************************************)
(* The modes.                                                              *)
(***************************************************************************)
\* Every mode blocks what the next one blocks.
LEMMA BlocksShrink ==
  ASSUME NEW lower \in Modes, NEW higher \in Modes, lower <= higher
  PROVE  ModeBlockedVerbs(higher) \subseteq ModeBlockedVerbs(lower)
<1>1. ModeBlockedVerbs(1) = MutatingVerbs \cup DestructiveVerbs
  BY DEF ModeBlockedVerbs
<1>2. ModeBlockedVerbs(2) = DestructiveVerbs
  BY DEF ModeBlockedVerbs
<1>3. ModeBlockedVerbs(3) = {}
  BY DEF ModeBlockedVerbs
<1>4. lower \in {1, 2, 3} /\ higher \in {1, 2, 3}
  BY DEF Modes
<1> QED BY <1>1, <1>2, <1>3, <1>4

\* No command is blocked by a mode and let through by a lower one, inside ssh or directly.
LEMMA ModesMonotone ==
  ASSUME NEW c, NEW lower \in Modes, NEW higher \in Modes, lower <= higher
  PROVE  /\ ModeBlocks(c, higher) => ModeBlocks(c, lower)
         /\ SshInnerIssue(c, higher) => SshInnerIssue(c, lower)
BY BlocksShrink DEF ModeBlocks, SshInnerIssue, LookedInto

\* A mode only adds permissions, for every command.
LEMMA HigherModeKeeps ==
  ASSUME NEW c, NEW d, NEW u
  PROVE  ModesOnlyAdd(c, d, u)
<1> SUFFICES ASSUME NEW lower \in Modes, NEW higher \in Modes, lower <= higher,
                    ValidatedAs(c, d, lower, u) # "denied"
             PROVE  ValidatedAs(c, d, higher, u) = ValidatedAs(c, d, lower, u)
  BY DEF ModesOnlyAdd
<1>1. validate_command(c, d, lower, u).status = "approved"
  BY DEF ValidatedAs
<1>2. /\ c.ns # "blank" /\ ~GloballyBlocked(c, d) /\ ~ModeBlocks(c, lower)
      /\ ~(d = "os" /\ c.ns = "ssh" /\ SshInnerIssue(c, lower)) /\ ~InjectionIssue(c)
  BY <1>1 DEF validate_command, Verdict
<1>3. ~ModeBlocks(c, higher) /\ ~(d = "os" /\ c.ns = "ssh" /\ SshInnerIssue(c, higher))
  BY <1>2, ModesMonotone
<1>4. validate_command(c, d, higher, u) = Verdict("approved", RiskOf(c, u))
  BY <1>2, <1>3 DEF validate_command
<1>5. validate_command(c, d, lower, u) = Verdict("approved", RiskOf(c, u))
  BY <1>2 DEF validate_command
<1> QED BY <1>4, <1>5 DEF ValidatedAs

-----------------------------------------------------------------------------
(***************************************************************************)
(* The configured risk.                                                    *)
(***************************************************************************)
\* The risk of a verb that is in a table does not depend on the configured risk.
LEMMA KnownRisk ==
  ASSUME NEW verb \in KnownVerbs, NEW u, NEW v
  PROVE  VerbRisk(verb, u) = VerbRisk(verb, v)
<1>1. CASE verb \in ReadOnlyOsUtilities
  BY <1>1 DEF VerbRisk
<1>2. CASE verb \in DestructiveVerbs \ ReadOnlyOsUtilities
  BY <1>2 DEF VerbRisk
<1>3. CASE verb \in MutatingVerbs \ (ReadOnlyOsUtilities \cup DestructiveVerbs)
  BY <1>3 DEF VerbRisk
<1>4. CASE verb \in ReadVerbs \ (ReadOnlyOsUtilities \cup DestructiveVerbs \cup MutatingVerbs)
  BY <1>4 DEF VerbRisk
<1> QED BY <1>1, <1>2, <1>3, <1>4 DEF KnownVerbs

\* The risk heuristic never rejects, and the configured risk is for unlisted verbs only.
LEMMA RiskNeverRejects ==
  ASSUME NEW c, NEW d, NEW m
  PROVE  RiskOnlyTags(c, d, m)
<1> SUFFICES ASSUME NEW u \in RiskTags, NEW v \in RiskTags
             PROVE  /\ validate_command(c, d, m, u).status = validate_command(c, d, m, v).status
                    /\ validate_command(c, d, m, u).risk # validate_command(c, d, m, v).risk =>
                         ~c.script /\ ActionVerb(c) \notin KnownVerbs
  BY DEF RiskOnlyTags
<1>1. validate_command(c, d, m, u).status = validate_command(c, d, m, v).status
  BY DEF validate_command, Verdict
<1>2. validate_command(c, d, m, u).risk # validate_command(c, d, m, v).risk =>
        RiskOf(c, u) # RiskOf(c, v)
  BY DEF validate_command, Verdict
<1>3. RiskOf(c, u) # RiskOf(c, v) => ~c.script /\ ActionVerb(c) \notin KnownVerbs
  BY KnownRisk DEF RiskOf
<1> QED BY <1>1, <1>2, <1>3

-----------------------------------------------------------------------------
(***************************************************************************)
(* Ssh.                                                                    *)
(***************************************************************************)
\* A command that may not be run directly may not be run through ssh when it is found whole,
\* where the patterns found in it are found in the text around it too, but for those tied to
\* the start of the line.
LEMMA SshKeepsTheRules ==
  ASSUME NEW c, NEW m, NEW u, c.ns = "ssh", c.form = "whole", c.inner.ns \in {"cli", "tool"},
         c.inner.marks \ {"os_pattern"} \subseteq c.marks,
         ValidatedAs(Direct(c.inner), "os", m, u) = "denied", RiskOf(Direct(c.inner), u) # "denied"
  PROVE  ValidatedAs(c, "os", m, u) = "denied"
<1> DEFINE i == Direct(c.inner)
<1>1. i.ns = c.inner.ns /\ i.word = c.inner.word /\ i.root = c.inner.root
      /\ i.marks = c.inner.marks
  BY DEF Direct
<1>2. i.ns # "blank" /\ i.ns # "ssh"
  BY <1>1
<1> HIDE DEF i
<1>3. GloballyBlocked(i, "os") \/ ModeBlocks(i, m) \/ InjectionIssue(i)
  <2> SUFFICES ASSUME ~GloballyBlocked(i, "os"), ~ModeBlocks(i, m), ~InjectionIssue(i)
               PROVE  FALSE
    OBVIOUS
  <2>1. validate_command(i, "os", m, u) = Verdict("approved", RiskOf(i, u))
    BY <1>2 DEF validate_command
  <2>2. ValidatedAs(i, "os", m, u) = RiskOf(i, u)
    BY <2>1 DEF ValidatedAs, Verdict
  <2> QED BY <2>2 DEF i
<1>4. ModeBlocks(i, m) => ModeBlocks(c.inner, m)
  BY <1>1, <1>2 DEF ModeBlocks, ActionVerb
<1>5. GloballyBlocked(i, "os") => "os_pattern" \in c.inner.marks
  BY <1>1 DEF GloballyBlocked
<1>6. InjectionIssue(i) => InjectionIssue(c)
  BY <1>1 DEF InjectionIssue
<1>7. SshInnerIssue(c, m) \/ InjectionIssue(c)
  BY <1>3, <1>4, <1>5, <1>6 DEF SshInnerIssue, LookedInto
<1>8. validate_command(c, "os", m, u).status # "approved"
  BY <1>7 DEF validate_command, Verdict
<1> QED BY <1>8 DEF ValidatedAs

\* The words of commands.
Texts == {w[1] : w \in Words} \cup {w[2] : w \in Words}

\* A command: what Spec may put into cmd, as far as ssh is concerned.
CommandOK(c) ==
  /\ c \in [ns : {"blank", "cli", "ssh", "tool"}, word : Texts, root : Texts,
            script : BOOLEAN, marks : SUBSET Marks, form : Forms,
            inner : [ns : {"cli", "tool"}, word : Texts, root : Texts,
                     marks : SUBSET Marks]]
  /\ LookedInto(c) => c.inner.marks \ {"os_pattern"} \subseteq c.marks

\* Every command Spec reaches is one.
LEMMA CommandsAreOK == Spec => []CommandOK(cmd)
<1> USE DEF Marks, Forms, NoWord
<1>1. Init => CommandOK(cmd)
  <2> SUFFICES ASSUME Init PROVE CommandOK(cmd)
    OBVIOUS
  <2> DEFINE c == [ns |-> "tool", word |-> "ps", root |-> "ps", script |-> FALSE, marks |-> {},
                   form |-> "absent", inner |-> PlainInner]
  <2>0. "ps" \in Texts
    <3>1. <<"ps", "ps">> \in Words
      BY DEF Words
    <3> QED BY <3>1 DEF Texts
  <2>1. PlainInner \in [ns : {"cli", "tool"}, word : Texts, root : Texts, marks : SUBSET Marks]
    BY <2>0 DEF PlainInner
  <2>2. cmd = c
    BY DEF Init
  <2>3. CommandOK(c)
    BY <2>0, <2>1 DEF CommandOK, LookedInto
  <2> QED BY <2>2, <2>3
<1>2. CommandOK(cmd) /\ [Next]_<<cmd, domain>> => CommandOK(cmd)'
  <2> SUFFICES ASSUME CommandOK(cmd), [Next]_<<cmd, domain>> PROVE CommandOK(cmd')
    OBVIOUS
  <2>1. CASE Reword
    <3>1. PICK w \in Words, n \in {"blank", "cli", "ssh", "tool"}, s \in BOOLEAN :
            Change([cmd EXCEPT !.ns = n, !.word = w[1], !.root = w[2], !.script = s])
      BY <2>1 DEF Reword
    <3>2. w[1] \in Texts /\ w[2] \in Texts
      BY DEF Texts
    <3> QED BY <3>1, <3>2 DEF Change, CommandOK, LookedInto
  <2>2. CASE Mark
    <3>1. PICK m \in Marks : Change([cmd EXCEPT !.marks = @ \cup {m}])
      BY <2>2 DEF Mark
    <3> QED BY <3>1 DEF Change, CommandOK, LookedInto
  <2>3. CASE Quote
    <3>1. PICK f \in Forms : Change([cmd EXCEPT !.form = f])
      BY <2>3 DEF Quote
    <3>2. WellFormed([cmd EXCEPT !.form = f])
      BY <3>1 DEF Change
    <3> QED BY <3>1, <3>2 DEF Change, CommandOK, WellFormed, LookedInto
  <2>4. CASE Inside
    <3>1. PICK w \in Words, n \in {"cli", "tool"},
               m \in {{}} \cup {{x} : x \in cmd.marks \cup {"os_pattern"}} :
            Change([cmd EXCEPT !.inner = [ns |-> n, word |-> w[1], root |-> w[2], marks |-> m]])
      BY <2>4 DEF Inside
    <3> DEFINE i == [ns |-> n, word |-> w[1], root |-> w[2], marks |-> m]
    <3>2. w[1] \in Texts /\ w[2] \in Texts /\ m \in SUBSET Marks
      <4>1. cmd.marks \in SUBSET Marks
        BY DEF CommandOK
      <4>2. m \in SUBSET Marks
        BY <4>1
      <4> QED BY <4>2 DEF Texts
    <3>3. i \in [ns : {"cli", "tool"}, word : Texts, root : Texts, marks : SUBSET Marks]
      BY <3>2
    <3>4. WellFormed([cmd EXCEPT !.inner = i])
      BY <3>1 DEF Change
    <3>5. cmd' = [cmd EXCEPT !.inner = i]
      BY <3>1 DEF Change
    <3> HIDE DEF i
    <3> QED BY <3>3, <3>4, <3>5 DEF CommandOK, WellFormed, LookedInto
  <2>5. CASE UNCHANGED <<cmd, domain>>
    BY <2>5 DEF CommandOK
  <2> QED BY <2>1, <2>2, <2>3, <2>4, <2>5 DEF Next
<1> QED BY <1>1, <1>2, PTL DEF Spec

-----------------------------------------------------------------------------
(***************************************************************************)
(* Theorems.                                                               *)
(***************************************************************************)
\* A higher execution mode only adds to what is approved, and changes no risk: whatever the
\* command.
THEOREM HigherModes == Spec => []HigherModesOnlyAdd
<1>1. HigherModesOnlyAdd
  BY HigherModeKeeps DEF HigherModesOnlyAdd
<1> QED BY <1>1, PTL

\* The configured risk never rejects a command, and tags only what no table knows.
THEOREM RiskTagsOnly == Spec => []TagsNeverReject
<1>1. TagsNeverReject
  BY RiskNeverRejects DEF TagsNeverReject
<1> QED BY <1>1, PTL

\* What may not be run directly may not be run through ssh either, when the validator finds
\* the very command that will run; of other ways to write it nothing is claimed.
THEOREM SshIsNoWayAround == Spec => []SshNoWeaker
<1>1. CommandOK(cmd) => SshNoWeaker
  <2> SUFFICES ASSUME CommandOK(cmd), NEW m \in Modes, NEW u \in RiskTags, cmd.ns = "ssh",
                      cmd.form = "whole",
                      ValidatedAs(Direct(cmd.inner), "os", m, u) = "denied"
               PROVE  ValidatedAs(cmd, "os", m, u) = "denied"
    BY DEF SshNoWeaker, SshAsStrict
  <2>1. cmd.inner.ns \in {"cli", "tool"} /\ cmd.inner.marks \ {"os_pattern"} \subseteq cmd.marks
    BY DEF CommandOK, LookedInto
  <2>2. RiskOf(Direct(cmd.inner), u) \in RiskTags
    <3>1. ASSUME NEW verb PROVE VerbRisk(verb, u) \in RiskTags
      BY DEF VerbRisk, RiskTags
    <3>2. Direct(cmd.inner).script = FALSE
      BY DEF Direct
    <3> QED BY <3>1, <3>2 DEF RiskOf
  <2>3. RiskOf(Direct(cmd.inner), u) # "denied"
    BY <2>2 DEF RiskTags
  <2> QED BY <2>1, <2>3, SshKeepsTheRules
<1> QED BY <1>1, CommandsAreOK, PTL
=============================================================================
