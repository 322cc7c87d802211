---------------------------- MODULE MCExtraction ----------------------------
(* Small instances of Extraction for TLC. *)
EXTENDS Extraction

Family(hosts, archives, formats, fronts, damages, trees) ==
  [host |-> hosts, archive |-> archives, format |-> formats,
   front |-> fronts, damage |-> damages, tree |-> trees]

Linux   == [windows |-> FALSE, folds |-> FALSE]
Windows == [windows |-> TRUE, folds |-> TRUE]

Empty == [path \in {} |-> 0]
Has(kind) == [path \in {<<<<"x">>>>} |-> Node(kind, 0)]

E(name, kind) == [name |-> name, kind |-> kind]

(* One entry, of every name of up to three tokens, and up to four of those a
   device name is made with. *)
DeviceTokens == {"con", "com", "1", ".", "sp", "/", "\\"}
Names == UNION {[1..n -> Tokens] : n \in 1..3} \union [1..4 -> DeviceTokens]

NamesAlone ==
  Family({Linux, Windows}, {<<E(name, "file")>> : name \in Names}, {"zip", "tar"},
         {"cli"}, {"none"}, {Empty})

(* One or two entries, over what may be in the way, damaged or not. *)
Entries ==
  {E(<<"x">>, "file"), E(<<"x">>, "dir"), E(<<"x">>, "special"),
   E(<<"x", "/", "x">>, "file"), E(<<"x", "/", "1", "/", ".">>, "dir"),
   E(<<"/", "x">>, "file"), E(<<".", ".", "/", "x">>, "file"), E(<<"com", "?">>, "file"),
   E(<<".">>, "dir")}
Listings == {<<e>> : e \in Entries} \union {<<e, f>> : e \in Entries, f \in Entries}

InTheFolder == {Empty} \union {Has(kind) : kind \in {"file", "dir", "link"}}

Over(archives, formats, folders) ==
  Family({Linux, Windows}, archives, formats, {"cli", "desktop"}, Damages, folders)

(* A root that tar drops leads to the archive unseen: the README says more. *)
Rootless == {l \in Listings : \A i \in DOMAIN l : ~Rooted(FALSE, l[i].name)}

(* Two cases of a letter: two entries of one name to the host, or one over a
   folder that holds the archive as "x". *)
Folded == Family({Windows}, {<<E(<<"X">>, "file")>>,
                             <<E(<<"X">>, "file"), E(<<"x">>, "file")>>},
                 Formats, {"desktop"}, {"none"}, {Empty, Has("archive")})

(* Links to files elsewhere, two of them to two files or to one. *)
Linked(links) == [path \in {<<<<name>>>> : name \in DOMAIN links} |->
                    Node("alias", links[path[1][1]])]
OneLink  == Linked([name \in {"x"} |-> 1])
TwoLinks == {Linked([name \in {"x", "X"} |-> IF name = "x" THEN 1 ELSE f]) : f \in {1, 2}}
LinkedTwice ==
  Family({Linux}, {<<E(<<"X">>, "file"), E(<<"x">>, "file")>>}, Formats, {"desktop"},
         {"none", "data"}, TwoLinks)

ExtractCases ==
  {NamesAlone, Folded, LinkedTwice,
   Over(Listings, Formats, {OneLink}), Over(Listings, Formats, InTheFolder),
   Over(Listings, Formats \ {"tar"}, {Has("archive")}),
   Over(Rootless, {"tar"}, {Has("archive")})}
=============================================================================
