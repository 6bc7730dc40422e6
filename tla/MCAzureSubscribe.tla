-------------------------- MODULE MCAzureSubscribe --------------------------
(* Two services; the image of one of them is built, in one run.             *)
EXTENDS AzureSubscribe
CONSTANTS web, db, r1
MCTaskOf == [i \in RunIds |-> web]
=============================================================================
