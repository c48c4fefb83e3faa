------------------------------ MODULE MCAgentRun ------------------------------
(***************************************************************************)
(* Instances of AgentRun: runs of two turns and two tool calls, and        *)
(* lists of up to three entries out of eight.                              *)
(***************************************************************************)
EXTENDS AgentRun

ThreeCalls == <<"call1", "call2", "call3">>

Entry(provider_id, api, model_id, lifecycle, model_ref) ==
  [provider_id |-> provider_id, api |-> api, model_id |-> model_id,
   lifecycle |-> lifecycle, model_ref |-> model_ref]

\* Two APIs of one model, a deprecated one, one of a later version of the protocol, ids
\* that need escapes, and refs of a server's own.
Entries ==
  {Entry(<<"p">>, <<"a">>, <<"m">>, "stable", <<>>),
   Entry(<<"p">>, <<"b">>, <<"m">>, "preview", <<"p", "/", "b", "@", "m">>),
   Entry(<<"p">>, <<"b">>, <<"m">>, "deprecated", <<>>),
   Entry(<<"p">>, <<"b">>, <<"m">>, "stable", <<"m">>),
   Entry(<<"p">>, <<"a">>, <<"m">>, "retired", <<>>),
   Entry(<<"p">>, <<"a">>, <<"q", "/", "m", "@", "%">>, "stable", <<>>),
   Entry(<<"p">>, <<"a">>, <<"q", "/", "m">>, "stable", <<"p", "/", "a", "@", "q", "/", "m">>),
   Entry(<<"q">>, <<"a">>, <<"m">>, "stable", <<>>)}

\* The same entry may stand in a list more than once.
CatalogsOfThree == SeqOf(Entries, 3)

Resolutions ==
  [provider_id : {<<"p">>, <<>>}, api : {<<>>, <<"a">>, <<"b">>},
   model_id : {<<"m">>, <<"q", "/", "m">>, <<"q", "/", "m", "@", "%">>}]

===============================================================================
