---------------------------- MODULE MCResources ----------------------------
EXTENDS Resources

MCUpdates == [id : 1..MaxOps, scope : Scopes]
MCCatLimit == [c \in Cats |-> CASE c = "ResourceCache" -> 4 [] c = "RemoteCollections" -> 6
                              [] c = "PendingUpdates" -> 7 [] OTHER -> 3]
MCCountLimit == [c \in Cats |-> CASE c = "ResourceCache" -> 2 [] c = "PendingUpdates" -> 4
                                [] OTHER -> 100]
=============================================================================
