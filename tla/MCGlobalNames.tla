--------------------------- MODULE MCGlobalNames ---------------------------
(***************************************************************************)
(* A small instance of GlobalNames for TLC: a builtin that is registered,  *)
(* one that is not, and an ordinary name.                                  *)
(***************************************************************************)
EXTENDS GlobalNames

MCNames == {"__gnat_reraise_zcx", "__gnat_begin_handler_v1", "proc"}
MCEntities == {"Reraise", "Begin_Handler", "Proc", "Proc_Import"}
MCNameOf == [e \in MCEntities |->
               CASE e = "Reraise" -> "__gnat_reraise_zcx"
                 [] e = "Begin_Handler" -> "__gnat_begin_handler_v1"
                 [] OTHER -> "proc"]
MCBuiltins == {"__gnat_reraise_zcx", "__gnat_begin_handler_v1"}
MCRegistered == {"__gnat_reraise_zcx"}

\* No unit defines the builtin that is not registered: its subprogram would be
\* renamed, as the README tells.
MCDefinable == MCRegistered \cup (MCNames \ MCBuiltins)
=============================================================================
