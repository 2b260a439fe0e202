---------------------------- MODULE CleanupRules ----------------------------
(***************************************************************************)
(* What may be cleaned up, decided twice: by the service when it offers    *)
(* candidates (CleanupPolicy and CleanupCandidateClassifier,               *)
(* agent/cleanup.py, over PathGuard, guardrails/policy.py), and by the     *)
(* root helper when it is asked to remove one (_validate_cleanup_target,   *)
(* deploy/kylin_guard_privileged.py).                                      *)
(*                                                                         *)
(* A file is what those rules tell apart.  "where" names the directory by  *)
(* who lists it; a nested directory with a low-risk name counts as "tmp".  *)
(***************************************************************************)

\* log: /var/log.  tmp: /tmp, /var/tmp.  home: a scanned directory under /home.
\* configured: one of user_home_scan_paths that is not under /home, or a home
\* reached through a symbolic link.  protected, elsewhere: outside every root.
Places == {"log", "tmp", "home", "configured", "protected", "elsewhere"}

\* rotated: .log, .gz, .old.  disposable: the other suffixes that are allowed.
Suffixes == {"rotated", "disposable", "other"}

\* hidden: open in a process whose descriptors the service may not list.
Uses == {"closed", "open", "hidden"}

FileKinds == [where : Places, suffix : Suffixes, critical : BOOLEAN, big : BOOLEAN,
              old : BOOLEAN, regular : BOOLEAN, link : BOOLEAN, use : Uses]

UseStates == {"NOT_OPEN", "OPEN", "UNKNOWN"}

-----------------------------------------------------------------------------
(* The service *)

\* AppConfig.controlled_cleanup_roots, user_home_scan_roots
CleanupRoots == {"log", "tmp", "home", "configured"}

\* PathGuard.validate
PathGuard(f) == ~f.link /\ f.where \in CleanupRoots

\* _is_low_risk_disposable
LowRisk(f) == f.suffix = "disposable" /\ f.where \in {"tmp", "home", "configured"}

\* open_file_lookup: lsof, or /proc/*/fd without the entries it may not list;
\* UNKNOWN when the tool fails or is not supported.
LookupStates(f) ==
    {"UNKNOWN", IF f.use = "open" THEN "OPEN" ELSE "NOT_OPEN"}

\* Mutant: the name of the file is not looked at.
Eligible_AnyName(f, state) ==
    /\ PathGuard(f) /\ f.regular /\ f.suffix # "other" /\ f.big
    /\ LowRisk(f) \/ f.old
    /\ state = "NOT_OPEN" \/ (state = "UNKNOWN" /\ LowRisk(f))

\* CleanupCandidateClassifier.classify: one conjunct for each reason to refuse.
Eligible(f, state) ==
    /\ PathGuard(f) /\ f.regular /\ f.suffix # "other" /\ f.big
    /\ ~f.critical
    /\ LowRisk(f) \/ f.old
    /\ state = "NOT_OPEN" \/ (state = "UNKNOWN" /\ LowRisk(f))

-----------------------------------------------------------------------------
(* The root helper *)

\* _is_allowed_cleanup_path
HelperRoots == {"log", "tmp", "home"}

\* _validate_cleanup_target.  It looks at neither size, age nor use: the size, the
\* modification time and the inode are those of the candidate or it refuses.
HelperAccepts(f) ==
    /\ ~f.link /\ f.regular
    /\ f.where \in HelperRoots
    /\ f.suffix # "other"
    /\ ~f.critical

=============================================================================
