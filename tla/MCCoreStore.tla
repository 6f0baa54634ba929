----------------------------- MODULE MCCoreStore -----------------------------
(* Small instances of CoreStore for TLC. *)
EXTENDS CoreStore, FiniteSets, TLC

MCResources == {"attempts"}

Ledgers(ns) == {[x \in Resources |-> n] : n \in ns}

MCBudgets == Ledgers({1, 2})
MCDeltas == Ledgers({1})

MCAuthority(mode, approved, expires, n) ==
    [mode |-> mode, approved |-> approved, expires |-> expires,
     budget |-> [x \in Resources |-> n]]

\* One that lasts, one that expires, and ones validate_authority refuses: a mode the
\* core does not run, and an approval dated in the future.
MCAuthorities == {MCAuthority("draft", 0, None, 1), MCAuthority("inspect", 0, 1, 1),
                  MCAuthority("apply", 0, None, 1), MCAuthority("audit", 3, None, 1)}
=============================================================================
