----------------------------- MODULE ModelCatalog -----------------------------
(***************************************************************************)
(* models.resolve (python/src/makai/models.py) against the catalogue of    *)
(* the provider server (zig/src/protocol/provider/server.zig), and the     *)
(* reading of the model_ref it returns (_model_ref.py, execution.py).      *)
(*                                                                         *)
(* Abstractions.  A name is a sequence of characters of which only the     *)
(* separators matter.  Length limits and the fields of a descriptor no     *)
(* caller's choice depends on are left out; lifecycle stands for every     *)
(* field whose value the client must know.  Models that are kept of a list *)
(* are told by their place in it.                                          *)
(***************************************************************************)
EXTENDS Naturals, SequencesExt, FiniteSets

CONSTANTS
  Catalogs,   \* the catalogues a server may have
  Requests    \* the arguments of resolve: [provider_id, model_id, api], api <<>> when not given

VARIABLES catalog, resolving

catalogVars == <<catalog, resolving>>

-----------------------------------------------------------------------------
(* model_ref. *)

\* The characters that are escaped, each as one symbol.
Escape == [c \in {"/", "@", "%"} |-> CASE c = "/" -> "%2F" [] c = "@" -> "%40" [] c = "%" -> "%25"]

Escapes == {"%2F", "%40", "%25"}

EncodeModelId(id) == [i \in DOMAIN id |-> IF id[i] \in DOMAIN Escape THEN Escape[id[i]] ELSE id[i]]

FormatModelRef(provider_id, api, model_id) ==
  provider_id \o <<"/">> \o api \o <<"@">> \o EncodeModelId(model_id)

Find(ref, separator) == SelectInSeq(ref, LAMBDA c : c = separator)

\* provider_id, api and what follows the first "@", where "/" comes first; <<>> otherwise.
Segments(ref) ==
  LET slash == Find(ref, "/")
      at == Find(ref, "@")
  IN  IF slash = 0 \/ at < slash THEN <<>>
      ELSE <<SubSeq(ref, 1, slash - 1), SubSeq(ref, slash + 1, at - 1), SubSeq(ref, at + 1, Len(ref))>>

IsSegment(name) == name # <<>> /\ ToSet(name) \cap (DOMAIN Escape \cup Escapes) = {}

IsEncoded(id) == id # <<>> /\ ToSet(id) \cap DOMAIN Escape = {}

Unquote(id) ==
  [i \in DOMAIN id |->
    IF id[i] \in Escapes THEN CHOOSE c \in DOMAIN Escape : Escape[c] = id[i] ELSE id[i]]

IsCanonical(parts) ==
  parts # <<>> /\ IsSegment(parts[1]) /\ IsSegment(parts[2]) /\ IsEncoded(parts[3])

\* Seeded fault: the loose reading of every ref, which keeps the escapes.
SplitLoosely(ref) ==
  LET parts == Segments(ref)
  IN  IF parts # <<>> /\ parts[1] # <<>> /\ parts[2] # <<>> THEN parts ELSE <<>>

\* <<provider_id, api, model_id>>, or <<>> for an opaque ref.
SplitModelRef(ref) ==
  LET parts == Segments(ref)
  IN  IF IsCanonical(parts) THEN <<parts[1], parts[2], Unquote(parts[3])>>
      ELSE IF parts # <<>> /\ parts[1] # <<>> /\ parts[2] # <<>> THEN parts
      ELSE <<>>

ModelFromRef(ref) ==
  LET parts == SplitModelRef(ref)
  IN  IF parts = <<>> THEN [id |-> ref, api |-> <<>>, provider |-> <<>>]
      ELSE [id |-> parts[3], api |-> parts[2], provider |-> parts[1]]

\* A catalogue is a list, its entries are named as formatModelRef lets a model be named, no
\* character is an escape, and a ref that an entry brings with it is opaque or its name.
ASSUME CatalogsAssumption ==
  \A entries \in Catalogs :
    /\ entries \in Seq([provider_id : Seq(STRING), api : Seq(STRING), model_id : Seq(STRING),
                        lifecycle : STRING, model_ref : Seq(STRING)])
    /\ \A i \in DOMAIN entries :
         LET model == entries[i] IN
         /\ IsSegment(model.provider_id) /\ IsSegment(model.api)
         /\ model.model_id # <<>> /\ ToSet(model.model_id) \cap Escapes = {}
         /\ SplitModelRef(model.model_ref) \in
              {<<>>, <<model.provider_id, model.api, model.model_id>>}

-----------------------------------------------------------------------------
(* The server.  include_deprecated defaults to FALSE, include_login_required to TRUE. *)

Matches(request, model) ==
  /\ model.provider_id = request.provider_id
  /\ request.api = <<>> \/ model.api = request.api
  /\ model.model_id = request.model_id
  /\ model.lifecycle # "deprecated"

\* An entry keeps a ref of its own; otherwise it gets the canonical one.
WithRef(model) ==
  IF model.model_ref # <<>> THEN model
  ELSE [model EXCEPT !.model_ref = FormatModelRef(model.provider_id, model.api, model.model_id)]

Filtered(request) ==
  [i \in {i \in DOMAIN catalog : Matches(request, catalog[i])} |-> WithRef(catalog[i])]

Nacked(code) == [kind |-> "nack", code |-> code]

ModelsReply(request) ==
  LET models == Filtered(request)
  IN  IF DOMAIN models = {} THEN Nacked("invalid_request")
      ELSE IF request.api = <<>> /\ Cardinality(DOMAIN models) > 1 THEN Nacked("invalid_request")
      ELSE [kind |-> "models", models |-> models]

-----------------------------------------------------------------------------
(* The client. *)

KnownLifecycles == {"stable", "preview", "deprecated"}

\* One descriptor with a value the client does not know fails the response.
Malformed(models) == \E i \in DOMAIN models : models[i].lifecycle \notin KnownLifecycles

RaisedError(code, request) == [pc |-> "raised", code |-> code, request |-> request]

Resolved(request, models) ==
  IF Cardinality(DOMAIN models) # 1 THEN RaisedError("invalid_request", request)
  ELSE LET model == models[CHOOSE i \in DOMAIN models : TRUE]
       IN  IF /\ model.provider_id = request.provider_id
              /\ model.model_id = request.model_id
              /\ request.api = <<>> \/ model.api = request.api
           THEN [pc |-> "resolved", request |-> request, model |-> model]
           ELSE RaisedError("invalid_request", request)

CatalogInit == catalog \in Catalogs /\ resolving = [pc |-> "idle"]

Resolve(request) ==
  /\ resolving.pc = "idle"
  /\ resolving' = IF request.provider_id = <<>> \/ request.model_id = <<>>
                    THEN RaisedError("invalid_request", request)
                    ELSE [pc |-> "asked", request |-> request]
  /\ UNCHANGED catalog

HandleModelsRequest ==
  /\ resolving.pc = "asked"
  /\ resolving' = [pc |-> "answered", request |-> resolving.request,
                   reply |-> ModelsReply(resolving.request)]
  /\ UNCHANGED catalog

DispatchReads ==
  /\ resolving.pc = "answered"
  /\ LET reply == resolving.reply
         request == resolving.request
     IN  resolving' = IF reply.kind = "nack" THEN RaisedError(reply.code, request)
                      ELSE IF Malformed(reply.models) THEN RaisedError("malformed_response", request)
                      ELSE Resolved(request, reply.models)
  /\ UNCHANGED catalog

DispatchTimesOut ==
  /\ resolving.pc \in {"asked", "answered"}
  /\ resolving' = RaisedError("timeout", resolving.request)
  /\ UNCHANGED catalog

-----------------------------------------------------------------------------
(* Properties. *)

Wanted(request) ==
  {i \in DOMAIN catalog :
     /\ catalog[i].provider_id = request.provider_id
     /\ catalog[i].model_id = request.model_id
     /\ request.api \in {<<>>, catalog[i].api}
     /\ catalog[i].lifecycle # "deprecated"}

\* models.resolve promises "exactly one model" (models.py:3-6): what it returns is the one
\* current entry of the catalogue with that provider, id and api (listed twice it is not
\* one), it says there is no such entry or several only when that is so, and the model that
\* provider calls make of the returned ref, however the id is escaped, names the same
\* provider, api and id.
ResolvedIsOnly ==
  /\ resolving.pc = "resolved" =>
       LET model == resolving.model
           made == ModelFromRef(model.model_ref)
       IN  /\ Cardinality(Wanted(resolving.request)) = 1
           /\ \A i \in Wanted(resolving.request) : WithRef(catalog[i]) = model
           /\ SplitModelRef(model.model_ref) # <<>> =>
                made = [id |-> model.model_id, api |-> model.api, provider |-> model.provider_id]
  /\ resolving.pc = "raised" /\ resolving.code = "invalid_request" =>
       Cardinality(Wanted(resolving.request)) # 1

===============================================================================
