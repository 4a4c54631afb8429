----------------------------- MODULE Validator ------------------------------
(***************************************************************************)
(* execution/validator.py: the blocklist-first validation of a command.    *)
(*                                                                         *)
(* A command is abstracted to what the patterns and the verb extraction    *)
(* tell apart:                                                             *)
(*   ns      the CLI namespace it starts with: "cli" (gcloud ..., aws ..., *)
(*           kubectl, systemctl), "ssh" (gcloud compute ssh), "tool" (none *)
(*           of them: the first word is the program) or "blank";           *)
(*   word    the word after the namespace, or the program's name;          *)
(*   root    that word up to its first dash;                               *)
(*   script  it starts with "python" or "curl";                            *)
(*   marks   which patterns are found in its text;                         *)
(*   form    for ssh: how the --command argument is written;               *)
(*   inner   for ssh: the command the validator finds in it (ns, word,     *)
(*           root, marks).                                                 *)
(***************************************************************************)
EXTENDS Naturals

Modes    == 1 .. 3
Domains  == {"os", "cloud"}
RiskTags == {"none", "elevated", "critical"}
Marks    == {"os_pattern", "cloud_pattern",           \* the two global blocklists
             "destructive_word", "dangerous_flag",    \* _has_dangerous_flag_combo
             "delete_method", "mutating_method", "read_endpoint",   \* _assess_script_risk
             "unsafe_pipe", "injection"}              \* _check_injection
NoWord   == ""

\* The --command argument: there is none; the pattern finds no command in it ("unread": a
\* blank for the "=", no quotes, more than one line); it finds an empty one; it finds the very
\* command that will run ("whole"); or a part of it, or another one ("cut": it ends at the
\* first quote of either kind, and only the first of several arguments is looked at).
Forms    == {"absent", "unread", "empty", "whole", "cut"}
LookedInto(cmd) == cmd.form \in {"whole", "cut"}

-----------------------------------------------------------------------------
(***************************************************************************)
(* Verbs.                                                                  *)
(***************************************************************************)
DestructiveVerbs ==
  {"create", "delete", "terminate", "destroy", "rm", "rmdir", "kill", "killall", "pkill",
   "reboot", "shutdown", "poweroff", "unlink", "install", "remove", "purge", "deallocate"}

MutatingVerbs ==
  {"start", "stop", "restart", "update", "modify", "scale", "set", "apply", "patch", "edit",
   "enable", "disable", "daemon-reload", "link", "rollout", "chmod", "chown", "chgrp"}

\* Mutant: the entries of the first two modes swapped.
SwappedModes(mode) ==
  CASE mode = 1 -> DestructiveVerbs
    [] mode = 2 -> MutatingVerbs \cup DestructiveVerbs
    [] mode = 3 -> {}

ModeBlockedVerbs(mode) ==
  CASE mode = 1 -> MutatingVerbs \cup DestructiveVerbs
    [] mode = 2 -> DestructiveVerbs
    [] mode = 3 -> {}

ReadOnlyOsUtilities ==
  {"ps", "pstree", "top", "htop", "df", "du", "lsblk", "blkid", "findmnt", "stat", "iostat",
   "free", "vmstat", "slabtop", "ss", "ip", "netstat", "nft", "journalctl", "dmesg", "cat",
   "head", "tail", "less", "more", "zcat", "grep", "uname", "uptime", "hostnamectl",
   "timedatectl", "hostname", "mpstat", "pidstat", "nproc", "lscpu", "lsmem", "lsns", "lsof",
   "whoami", "id", "w", "who", "last", "lastlog", "date", "cal", "env", "printenv", "sysctl",
   "lsmod", "modinfo", "dpkg", "apt-cache", "rpm", "yum", "ulimit", "getconf", "ls"}

ReadVerbs ==
  {"list", "describe", "get", "show", "status", "info", "view", "explain", "logs", "log",
   "top", "read", "query", "search", "filter", "can-i", "cluster-info", "api-resources",
   "api-versions", "version", "auth", "ls", "head", "history", "ssh"}

\* _extract_action_verb: after a namespace, the first part of the next word
\* (describe-instances is describe); a program's own name is not cut.
ActionVerb(cmd) ==
  CASE cmd.ns = "tool"                       -> cmd.word
    [] cmd.ns # "tool" /\ cmd.word # NoWord  -> cmd.root
    [] cmd.ns = "ssh" /\ cmd.word = NoWord   -> "ssh"
    [] OTHER                                 -> NoWord

\* Is the command's verb blocked in this mode?
ModeBlocks(cmd, mode) == ActionVerb(cmd) \in ModeBlockedVerbs(mode)

-----------------------------------------------------------------------------
(***************************************************************************)
(* Risk: a tag.  unknown is settings.unknown_binary_risk.                  *)
(***************************************************************************)
\* Mutant: mutating verbs get the configured risk.
MutatingAsUnknown(verb, unknown) ==
  CASE verb \in ReadOnlyOsUtilities \cup ReadVerbs -> "none"
    [] verb \in DestructiveVerbs                   -> "critical"
    [] OTHER                                       -> unknown

VerbRisk(verb, unknown) ==
  CASE verb \in ReadOnlyOsUtilities                           -> "none"
    [] verb \in DestructiveVerbs \ ReadOnlyOsUtilities        -> "critical"
    [] verb \in MutatingVerbs
                  \ (ReadOnlyOsUtilities \cup DestructiveVerbs) -> "elevated"
    [] verb \in ReadVerbs \ (ReadOnlyOsUtilities \cup DestructiveVerbs \cup MutatingVerbs)
                                                              -> "none"
    [] OTHER                                                  -> unknown

\* Scripts, by the HTTP methods they name.  (Their endpoints are also matched with the cloud
\* blocklist, every pattern of which needs a blank: no endpoint can match.)
ScriptRisk(cmd) ==
  CASE "delete_method" \in cmd.marks -> "critical"
    [] {"delete_method", "read_endpoint"} \cap cmd.marks = {}
         /\ "mutating_method" \in cmd.marks -> "elevated"
    [] OTHER -> "none"

RiskOf(cmd, unknown) ==
  IF cmd.script THEN ScriptRisk(cmd) ELSE VerbRisk(ActionVerb(cmd), unknown)

-----------------------------------------------------------------------------
(***************************************************************************)
(* Rejections, and the pipeline.                                           *)
(***************************************************************************)
GloballyBlocked(cmd, domain) ==
  \/ domain = "os" /\ "os_pattern" \in cmd.marks
  \/ domain = "cloud" /\ \/ "cloud_pattern" \in cmd.marks
                         \/ {"destructive_word", "dangerous_flag"} \subseteq cmd.marks

\* Mutant: the command inside is matched with the global blocklist only.
GlobalListOnly(cmd, mode) ==
  \/ cmd.form \in {"absent", "empty"}
  \/ LookedInto(cmd) /\ "os_pattern" \in cmd.inner.marks

\* _validate_ssh_inner_command: a --command in which the pattern finds nothing passes.
SshInnerIssue(cmd, mode) ==
  \/ cmd.form \in {"absent", "empty"}
  \/ LookedInto(cmd) /\ ("os_pattern" \in cmd.inner.marks \/ ModeBlocks(cmd.inner, mode))

\* _check_injection
InjectionIssue(cmd) == {"unsafe_pipe", "injection"} \cap cmd.marks # {}

Verdict(status, risk) == [status |-> status, risk |-> risk]

validate_command(cmd, domain, mode, unknown) ==
  IF cmd.ns = "blank" THEN Verdict("sanitization_failed", "none")
  ELSE IF GloballyBlocked(cmd, domain) THEN Verdict("blocked_by_blocklist", "none")
  ELSE IF ModeBlocks(cmd, mode) THEN Verdict("blocked_by_mode", "none")
  ELSE IF domain = "os" /\ cmd.ns = "ssh" /\ SshInnerIssue(cmd, mode)
  THEN Verdict("blocked_by_blocklist", RiskOf(cmd, unknown))
  ELSE IF InjectionIssue(cmd) THEN Verdict("sanitization_failed", RiskOf(cmd, unknown))
  ELSE Verdict("approved", RiskOf(cmd, unknown))

\* What the executor does with it: "denied", or the risk of an approved command.
ValidatedAs(cmd, domain, mode, unknown) ==
  LET verdict == validate_command(cmd, domain, mode, unknown) IN
  IF verdict.status = "approved" THEN verdict.risk ELSE "denied"

-----------------------------------------------------------------------------
(***************************************************************************)
(* Properties of a command.                                                *)
(***************************************************************************)

\* A mode only adds permissions: a command approved in one mode is approved in every higher
\* one, with the same risk.
ModesOnlyAdd(cmd, domain, unknown) ==
  \A lower, higher \in Modes :
    lower <= higher /\ ValidatedAs(cmd, domain, lower, unknown) # "denied" =>
      ValidatedAs(cmd, domain, higher, unknown) = ValidatedAs(cmd, domain, lower, unknown)

\* "Never causes rejection": unknown_binary_risk changes no status, and no risk but that of
\* a command that is no script and whose verb is in none of the tables.
KnownVerbs == DestructiveVerbs \cup MutatingVerbs \cup ReadVerbs \cup ReadOnlyOsUtilities
RiskOnlyTags(cmd, domain, mode) ==
  \A u, v \in RiskTags :
    LET with_u == validate_command(cmd, domain, mode, u)
        with_v == validate_command(cmd, domain, mode, v)
    IN /\ with_u.status = with_v.status
       /\ with_u.risk # with_v.risk => ~cmd.script /\ ActionVerb(cmd) \notin KnownVerbs

\* What an agent of the OS domain may not run directly it may not run through ssh either,
\* when the pattern finds the very command that will run, and it is not itself one of ssh.
\* Nothing is said of the other forms: a command the pattern does not find ("unread") is let
\* through whatever it is, and of a "cut" one another part may run.
Direct(inner) ==
  [ns |-> inner.ns, word |-> inner.word, root |-> inner.root, script |-> FALSE,
   marks |-> inner.marks, form |-> "absent", inner |-> inner]
SshAsStrict(cmd, mode, unknown) ==
  cmd.ns = "ssh" /\ cmd.form = "whole"
    /\ ValidatedAs(Direct(cmd.inner), "os", mode, unknown) = "denied" =>
      ValidatedAs(cmd, "os", mode, unknown) = "denied"
=============================================================================
