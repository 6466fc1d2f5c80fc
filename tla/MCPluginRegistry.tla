-------------------------- MODULE MCPluginRegistry --------------------------
(* Two plugins where a needs b, which may fail to import; b loads first    *)
(* although its hooks come last.                                           *)
EXTENDS PluginRegistry, TLC

mcOrder == <<"a", "b">>
mcDeps == "a" :> {"b"} @@ "b" :> {}
mcConflicts == "a" :> {} @@ "b" :> {}
mcHooks == "a" :> <<"curvature">> @@ "b" :> <<"curvature", "desire">>
mcPriority == "a" :> 20 @@ "b" :> 50
mcFragile == {"b"}
mcLazy == {"controlsd"}
mcNone == {}
=============================================================================
