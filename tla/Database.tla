------------------------------ MODULE Database ------------------------------
(***************************************************************************)
(* GF_CDatabase: the XML file of an armband, with its link key and the     *)
(* services discovered.  A file is the sequence of its root elements; a    *)
(* save that the end of the program cut off leaves the first of them, and  *)
(* what is not whole is Torn.  Services are sequences of characteristics,  *)
(* these of the kinds of their descriptors, in the order of mIndex; the    *)
(* other attributes go to the file and come back as they are.  A file that *)
(* is not there is <<>>: it does not load, and has nothing to be loaded.   *)
(***************************************************************************)
EXTENDS Naturals, Sequences, SequencesExt

\* No name is the beginning of a sibling's, so that memcmp over it tells them.
Element(name, index, uuid, num, children) ==
    [name |-> name, index |-> index, uuid |-> uuid, num |-> num, children |-> children]

Places(list, name) == {i \in DOMAIN list : list[i].name = name}
Named(list, name)  == {list[i] : i \in Places(list, name)}
Least(S)           == CHOOSE x \in S : \A y \in S : x <= y

Torn == Element("torn", 0, "none", 0, <<>>)

\* OYMXMLDocument.  A root element that does not end, the last there is, is
\* deleted again and makes LoadFile fail; the ones before it stay in the document.
LoadFails(file) == Torn \in Range(file)
LoadFile(file)  == IF LoadFails(file) THEN Front(file) ELSE file

\* SaveFile empties the file and writes it from the start.
Interrupted(document) ==
    {document} \cup UNION {{SubSeq(document, 1, k), Append(SubSeq(document, 1, k), Torn)}
                              : k \in 0..Len(document) - 1}
-----------------------------------------------------------------------------
\* DeleteNode: the first root of the name goes; without one nothing is saved.
DeleteNode(file, name) ==
    LET roots == LoadFile(file)
    IN  IF Places(roots, name) = {} THEN file
        ELSE RemoveAt(roots, Least(Places(roots, name)))

\* What SaveLinkKey wrote; nothing calls it any more.
LinkKey == Element("SecurityInfomation", 0, "none", 0, <<>>)

LoadsLinkKey(file) ==
    ~LoadFails(file) /\ Named(LoadFile(file), "SecurityInfomation") # {}

\* A value is saved for a characteristic that can be read, and descriptors
\* behind it.
SaveCharacteristicDescriptor(k, uuid) ==
    Element("CharacteristicDescriptor", k, uuid, 0, <<>>)

SaveChracteristicValue == Element("CharacteristicValue", 0, "none", 0, <<>>)

SaveCharacteristic(c, descriptors, readable) ==
    Element("Characteristic", c, "none", Len(descriptors),
            (IF readable THEN <<SaveChracteristicValue>> ELSE <<>>)
                \o [k \in DOMAIN descriptors |->
                       SaveCharacteristicDescriptor(k, descriptors[k])])

SavePrimaryService(s, characteristics, readable) ==
    Element("PrimaryService", s, "none", Len(characteristics),
            [c \in DOMAIN characteristics |->
                SaveCharacteristic(c, characteristics[c], readable[c])])

\* The document SaveService has when it saves it; that LoadFile failed is only
\* logged.
SaveService(file, services, readable) ==
    Append(LoadFile(file),
           Element("GATTService", 0, "none", 0,
                   [s \in DOMAIN services |->
                       SavePrimaryService(s, services[s], readable[s])]))
-----------------------------------------------------------------------------
\* Find...ByIndex, for each index below the number that was saved: that every
\* loaded item is pushed in front of the ones before it makes no difference.
ByIndex(elements, n) == [i \in 1..n |-> CHOOSE e \in elements : e.index = i]

GetCharacteristicDescriptor(chara) == Named(chara.children, "CharacteristicDescriptor")

LoadCharacteristic(chara) ==
    LET descriptors == ByIndex(GetCharacteristicDescriptor(chara), chara.num)
    IN  [k \in DOMAIN descriptors |-> descriptors[k].uuid]

GetCharacteristic(service) == Named(service.children, "Characteristic")

LoadPrimaryService(service) ==
    LET characteristics == ByIndex(GetCharacteristic(service), service.num)
    IN  [c \in DOMAIN characteristics |-> LoadCharacteristic(characteristics[c])]

LoadsService(file) ==
    ~LoadFails(file) /\ Named(LoadFile(file), "GATTService") # {}

LoadService(file) ==
    LET roots    == LoadFile(file)
        found    == roots[Least(Places(roots, "GATTService"))].children
        services == ByIndex(Range(found), Len(found))
    IN  [s \in DOMAIN services |-> LoadPrimaryService(services[s])]
=============================================================================
