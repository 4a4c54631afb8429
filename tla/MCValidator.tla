---------------------------- MODULE MCValidator -----------------------------
(***************************************************************************)
(* Commands for Validator: every command of at most MaxMarks patterns over *)
(* words of each kind, reached by changing one feature after the other.    *)
(***************************************************************************)
EXTENDS Validator, FiniteSets

CONSTANT MaxMarks   \* bound: patterns found in one command

VARIABLES cmd, domain

\* A word and its root: listed verbs, compound ones, names with a dash, unlisted ones.
Words ==
  { <<"list", "list">>, <<"describe-instances", "describe">>, <<"delete", "delete">>,
    <<"restart", "restart">>, <<"daemon-reload", "daemon">>, <<"web-1", "web">>,
    <<"ps", "ps">>, <<"apt-cache", "apt">>, <<NoWord, NoWord>> }

PlainInner == [ns |-> "tool", word |-> "ps", root |-> "ps", marks |-> {}]

Init ==
  /\ cmd = [ns |-> "tool", word |-> "ps", root |-> "ps", script |-> FALSE, marks |-> {},
            form |-> "absent", inner |-> PlainInner]
  /\ domain \in Domains

\* The text found inside is part of the whole: so are the patterns found in it, but for an
\* OS pattern tied to the start of the line.
WellFormed(c) ==
  /\ c.script => c.ns = "tool"
  /\ c.ns = "blank" => c.marks = {}
  /\ c.ns = "tool" => c.word # NoWord
  /\ c.ns # "ssh" => c.form = "absent"
  /\ ~LookedInto(c) => c.inner = PlainInner
  /\ c.inner.ns = "tool" => c.inner.word # NoWord
  /\ LookedInto(c) => c.inner.marks \ {"os_pattern"} \subseteq c.marks

Change(c) == WellFormed(c) /\ cmd' = c /\ UNCHANGED domain

Reword ==
  \E w \in Words, n \in {"blank", "cli", "ssh", "tool"}, s \in BOOLEAN :
    Change([cmd EXCEPT !.ns = n, !.word = w[1], !.root = w[2], !.script = s])
Mark ==
  \E m \in Marks : Cardinality(cmd.marks) < MaxMarks
                     /\ Change([cmd EXCEPT !.marks = @ \cup {m}])
Quote ==
  \E f \in Forms : Change([cmd EXCEPT !.form = f])
Inside ==
  \E w \in Words, n \in {"cli", "tool"},
     m \in {{}} \cup {{x} : x \in cmd.marks \cup {"os_pattern"}} :
    Change([cmd EXCEPT !.inner = [ns |-> n, word |-> w[1], root |-> w[2], marks |-> m]])

Next == Reword \/ Mark \/ Quote \/ Inside

Spec == Init /\ [][Next]_<<cmd, domain>>

\* A higher execution mode only adds to what is approved, and changes no risk.
HigherModesOnlyAdd == \A u \in RiskTags : ModesOnlyAdd(cmd, domain, u)

\* The risk heuristic never rejects; the configured risk is for unlisted verbs only.
TagsNeverReject == \A m \in Modes : RiskOnlyTags(cmd, domain, m)

\* The ssh route is no way around the rules for direct commands, where the validator finds
\* the command that will run (_validate_ssh_inner_command).
SshNoWeaker == \A m \in Modes, u \in RiskTags : SshAsStrict(cmd, m, u)
=============================================================================
