---------------------------- MODULE MCRegistry ----------------------------
(***************************************************************************)
(* A small instance of Registry for TLC: two of the library's handlers,    *)
(* and one of the application that cannot save and also takes an extension *)
(* of the library's.                                                       *)
(***************************************************************************)
EXTENDS Registry

MCLibrary    == <<"Dds", "Vta">>
MCExtensions == [h \in {"Dds", "Vta", "App"} |->
  CASE h = "Dds" -> {"dds"} [] h = "Vta" -> {"vta"}
    [] h = "App" -> {"app", "vta"}]
MCMethods    == [h \in {"Dds", "Vta", "App"} |->
  IF h = "App" THEN {"readImage"} ELSE {"readImage", "isSaveSupported", "save"}]
=============================================================================
