---------------------------- MODULE ApiParamsMC ----------------------------
(***************************************************************************)
(* A URL that holds %26, which is read as an &, which ends it when it is   *)
(* written again; and a document or an environment that gives a flag, in   *)
(* text or as a boolean of JSON, a string or an object.                    *)
(***************************************************************************)
EXTENDS ApiParams

RereadMC ==
  [t \in Texts |-> CASE t = "u%26" -> "u&" [] t = "u&" -> "u" [] OTHER -> t]
BackingsMC ==
  {Nothing, [Nothing EXCEPT !["dark"] = "false"],
   [Nothing EXCEPT !["dark"] = "odd"],
   [Nothing EXCEPT !["defaultURL"] = "u", !["viewport"] = "o"]}

=============================================================================
