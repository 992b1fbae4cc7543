----------------------------- MODULE MCSettings -----------------------------
(***************************************************************************)
(* Instances of Settings for TLC: two defaults, one of them needed; and of *)
(* ConfigText: every first line of up to six characters, and what follows. *)
(***************************************************************************)
EXTENDS SettingsText

L(n, v) == [name |-> n, value |-> v]

NameSmall == {"SSID", "API", "OTHER"}
ValueSmall == {"default", "one", "two"}
StoredWhole == [n \in NameSmall |-> n]
DefaultsTwo == <<L("SSID", "default"), L("API", "default")>>
FilesSmall ==
  {<<>>,
   <<L("API", "one")>>,
   <<L("OTHER", "one"), L("API", "two")>>,
   <<L("SSID", "two"), L("API", "one"), L("SSID", "one")>>}

Following == {<<>>, <<":", "a">>, <<"a", " ", ":", "a", "\n">>, <<"#", "a", "\n", "a", ":", "\n">>}
InputsSmall == {f \o g : f \in UNION {[1 .. n -> Char] : n \in 0 .. 6}, g \in Following}
=============================================================================
