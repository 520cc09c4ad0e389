-------------------------- MODULE MCSecretRequests --------------------------
(* Secrets of every type, in the shapes that the conversions tell apart.     *)
EXTENDS SecretRequests

Seqs == INSTANCE SequencesExt

Text(v) == <<"text", v>>
Pem == <<"pem", "key">>

MCSecrets ==
  {Common(Generic, Text("a")), Basic(Text("a"), Text("b")),
   Store(JKS, Text("a"), Text("b")), Store("BKS", Text("a"), Text("b")),
   Pairs([key |-> <<"number">>, content |-> Text("b")]), Pairs([k \in {} |-> Nil]),
   Common(PrivateKey, <<"base64", Pem, TRUE>>), Common(PrivateKey, Text("a"))}

MCPrefixes == {<<>>, <<"prefix">>}
MCSecretPaths == {<<"path">>}
MCNames == {<<"name">>, <<"..", "..", "path", "name">>}

\* One way the vault may read relative segments: each takes one away, below
\* the mount.  With a prefix the second name is then what the first is without.
Cleaned(path) ==
  Seqs!FoldLeft(LAMBDA seen, segment :
                  IF segment # ".." THEN Append(seen, segment)
                  ELSE IF seen = <<>> THEN seen ELSE Seqs!Front(seen),
                <<>>, path)

MCResolved == [path \in Paths |-> <<path[1]>> \o Cleaned(Tail(path))]

\* The types the filter of the role attributes lets through.
MCRoleSecrets == {Common(Generic, Text("a")), Common(ApiKey, Text("b"))}

MCOthers == {[username |-> Text("a"), password |-> <<"number">>], [content |-> Pem]}

MCStyles == {"defined", "foreign", "declared", "none", "two", "number", "blank", "missing"}
=============================================================================
