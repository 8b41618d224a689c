-------------------------- MODULE MCGattDiscovery --------------------------
(***************************************************************************)
(* GattDiscovery for TLC: one armband whose services take each of the      *)
(* shapes the walk distinguishes, or two with a long value each.           *)
(***************************************************************************)
EXTENDS GattDiscovery, TLC

CONSTANTS d1, d2

Char(readable, long, descs) ==
    [readable |-> readable, long |-> long, room |-> descs # <<>>, descs |-> descs]
Of(chars) == [empty |-> FALSE, chars |-> chars]
EmptyService == [empty |-> TRUE, chars |-> <<>>]

Plain   == Char(TRUE, FALSE, <<>>)
Command == Char(FALSE, FALSE, <<>>)
Notify  == Char(FALSE, FALSE, <<"ccc", "other">>)
Name    == Char(TRUE, TRUE, <<"ccc">>)
Gap     == [Plain EXCEPT !.room = TRUE]

MCLayouts ==
    {d1 :> L : L \in
        {<<Of(<<Plain, Command, Notify>>), EmptyService, Of(<<Command, Command, Name>>)>>,
         <<Of(<<Notify, Command>>), Of(<<Command>>), Of(<<Gap, Notify>>)>>,
         <<Of(<<Name, Plain>>), EmptyService>>,
         <<Of(<<Notify>>), Of(<<>>), Of(<<Notify>>)>>,
         <<Of(<<Plain>>), Of(<<>>)>>,
         <<Of(<<Plain>>)>>}}
    \cup {(d1 :> L @@ d2 :> L) : L \in {<<Of(<<Name>>)>>}}
=============================================================================
