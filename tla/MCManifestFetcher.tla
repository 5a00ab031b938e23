-------------------------- MODULE MCManifestFetcher --------------------------
\* Instances of ManifestFetcher for TLC.
EXTENDS ManifestFetcher

CONSTANTS t1, a

Listing == [image |-> t1, pipelines |-> {a}]

Lists1 == [kind |-> "manifest", names |-> {a}]
ListsNone == [kind |-> "manifest", names |-> {}]

Whiteout == [kind |-> "whiteout"]
Unreadable == [kind |-> "unreadable"]

SmallEntries == {Lists1, [kind |-> "malformed"], Whiteout, Unreadable}
SmallLayers == {<<>>} \cup {<<e>> : e \in SmallEntries}
                      \cup {<<e, f>> : e, f \in SmallEntries}

\* Every image of at most three layers of at most two entries.
SmallImages == {<<>>} \cup {<<l>> : l \in SmallLayers}
                      \cup {<<l, m>> : l, m \in SmallLayers}
                      \cup {<<l, m, n>> : l, m, n \in SmallLayers}

FewImages == {<<<<Lists1>>>>, <<<<Lists1>>, <<Unreadable>>>>}
PushImages == {<<<<ListsNone>>>>, <<<<Lists1>>, <<Whiteout>>>>}

AskListing == {Listing}

=============================================================================
