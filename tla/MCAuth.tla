------------------------------ MODULE MCAuth ------------------------------
(* A server that allows every mechanism, or all but the one that every      *)
(* client tries first.                                                      *)
EXTENDS Auth

MCMessages == <<"hello", "call">>

MCAllowedSets ==
    {{"EXTERNAL", "DBUS_COOKIE_SHA1", "ANONYMOUS"},
     {"DBUS_COOKIE_SHA1", "ANONYMOUS"}}
=============================================================================
