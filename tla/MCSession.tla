----------------------------- MODULE MCSession -----------------------------
(***************************************************************************)
(* Small instances of Session: a session of any kind with anything that    *)
(* can fail failing, and the sessions the violations are found in. The     *)
(* buffers are small, so that every writer meets a full one.               *)
(***************************************************************************)
EXTENDS Session

OnlyExec == {"exec"}
OnlySubsystem == {"subsystem"}
=============================================================================
