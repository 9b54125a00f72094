------------------------ MODULE MCMetadataPublisher ------------------------
(* Small instances of MetadataPublisher.                                   *)
EXTENDS MetadataPublisher
MCPortSets ==
    {{}, {3000}, {3000, 8080}, {3000, 8080, 10443}, {5173, 8080, 10443, 50000}}
=============================================================================
