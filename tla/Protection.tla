----------------------------- MODULE Protection -----------------------------
(***************************************************************************)
(* internal/server/protect.go: whom a public request comes from, and       *)
(* whether it may pass.                                                    *)
(*                                                                         *)
(* A request has a remote address, the lines of its X-Forwarded-For header,*)
(* each split at its commas ("" is a blank part), and credentials.  A      *)
(* configuration has the networks of the allow list, a user ("" for none), *)
(* a password and the number of trusted proxies.                           *)
(***************************************************************************)
EXTENDS Integers, SequencesExt

NotBlank(part) == part # ""

\* The entries of all lines, in order.
Forwarded(lines) == SelectSeq(FlattenSeq(lines), NotBlank)

\* Mutant of ClientIP: the last entry is taken, however many proxies there are.
ClientIPLast(cfg, req) ==
    LET xff == Forwarded(req.lines)
    IN  IF cfg.hops = 0 \/ xff = <<>> THEN req.remote ELSE Last(xff)

ClientIP(cfg, req) ==
    LET xff == Forwarded(req.lines)
        idx == Len(xff) - cfg.hops + 1
    IN  IF cfg.hops = 0 \/ idx < 1 THEN req.remote ELSE xff[idx]

IPAllowed(cfg, req) == \E net \in cfg.allow : ClientIP(cfg, req) \in net

BasicAuthOK(cfg, req) == req.sent /\ req.user = cfg.user /\ req.pass = cfg.pass

Allow(cfg, req) ==
    /\ cfg.allow # {} => IPAllowed(cfg, req)
    /\ cfg.user # "" => BasicAuthOK(cfg, req)
=============================================================================
