---------------------------- MODULE MCDictionary ----------------------------
(* The dictionary, and the compiler's control words with the code they compile, each by
   itself: part says which one goes; the other stays where it begins.  The dictionary is
   followed up to the first word run over an open definition, of which its properties but
   the type and the line store's say nothing more.                                      *)
EXTENDS Dictionary, Control

VARIABLE part

MCBounds == {<<0, 0>>, <<2, 1>>}
ASSUME DictionaryRunAssumption == ControlParameters
allVars == <<part, vars, controlVars>>
AllInit == part \in {"dictionary", "control"} /\ Init /\ ControlInit
AllNext == \/ part = "dictionary" /\ ~ nested /\ Next /\ UNCHANGED <<part, controlVars>>
           \/ part = "control" /\ ControlNext /\ UNCHANGED <<part, vars>>
           \/ nested /\ UNCHANGED allVars
AllSpec == AllInit /\ [][AllNext]_allVars
=============================================================================
