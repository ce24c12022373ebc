---------------------------- MODULE MCRegistration ----------------------------
(* Model-checking instance of Registration: an s3 bucket, a gcs bucket, an  *)
(* http origin, local files, and locations the code cannot serve.           *)
EXTENDS Registration, TLC

MCLocations == {"s3a", "gcsa", "web", "local", "ftp", "junk"}
MCKind == [l \in MCLocations |->
    CASE l = "s3a" -> "s3" [] l = "gcsa" -> "gcs"
      [] l = "local" -> "file" [] l = "web" -> "http" [] l = "ftp" -> "other" [] OTHER -> "bad"]

Ask(paths, ns, refused, schema) ==
    [paths |-> paths, ns |-> ns, refused |-> refused, schema |-> schema, fits |-> TRUE,
     name |-> "t"]

(* One cloud, both clouds, options of another cloud or of none, options the *)
(* builder refuses, and paths without a store.                              *)
MCRequests ==
    { Ask(<<"s3a", "web">>, {"aws"}, {}, FALSE),
      Ask(<<"s3a", "gcsa">>, {"aws", "gcp"}, {}, FALSE),
      Ask(<<"s3a", "gcsa">>, {"aws", "gcp"}, {}, TRUE),
      Ask(<<"gcsa">>, {"aws"}, {}, FALSE),
      Ask(<<"s3a", "local">>, {"odd"}, {}, TRUE),
      Ask(<<"s3a", "local">>, {"aws"}, {"s3"}, FALSE),
      Ask(<<"local", "ftp">>, {}, {}, FALSE),
      Ask(<<"local", "junk">>, {}, {}, TRUE),
      Ask(<<>>, {}, {}, TRUE),
      [Ask(<<"local">>, {}, {}, TRUE) EXCEPT !.fits = FALSE] }

Symmetry == Permutations(Callers)
=============================================================================
