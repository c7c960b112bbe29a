----------------------------- MODULE MCLiveFeed -----------------------------
\* Constant values for model checking BridgeFeed: which actors meet, the images of
\* pages, the workspaces of threads, and the texts of tools.
EXTENDS BridgeFeed

CONSTANTS d1, d2, s1, p1, i1, i2, i3, t1, t2, t3, dirA, dirB, linkA

\* The devices are interchangeable.
PhonePermutations == Permutations({d1, d2})

Meetings == { {"codex", "list"}, {"codex", "breaks"}, {"create", "list"}, {"approve"},
              {"codex", "revoke"}, {"images"}, {"threads"}, {"tools"} }

UpTo(n, S) == UNION {[1 .. k -> S] : k \in 0 .. n}

ImagePages == UpTo(2, Images) \ {<< >>}

ThreadCwd == (t1 :> "none") @@ (t2 :> dirA) @@ (t3 :> linkA)

\* Every short text, and some longer ones: addresses, paths after a separator, after a
\* word, in one and at its end, blanks.
ShortTexts == UpTo(3, {"/", ":", "-", ",", "a"})
LongTexts == {<<"http", ":", "/", "/", "a">>, <<"a", " ", "/", "a">>, <<"a", " ", " ", "b", "/", "c">>,
              <<"-", "/", "a">>, <<"a", "-", "/", "a", "/", "b">>, <<" ">>, <<"/", "a", "/">>,
              <<"/", "a", "/", " ">>, <<"a", ":", "b", ":", "/">>}
Optional(texts) == {{}} \cup {{text} : text \in texts}

Item(type, action, name, path, paths, shows) ==
  [type |-> type, action |-> action, name |-> name, path |-> path, paths |-> paths, shows |-> shows]

ToolItems ==
  {Item(type, "none", name, {}, << >>, {}) :
     type \in {"webSearch", "review", "collabAgentToolCall", "other"},
     name \in Optional(ShortTexts \cup LongTexts)}
  \cup {Item(type, "none", {}, path, << >>, {}) :
          type \in {"imageView", "subAgentActivity"}, path \in Optional(ShortTexts \cup LongTexts)}
  \cup {Item(type, "none", name, path, << >>, {}) :
          type \in {"mcpToolCall", "dynamicToolCall"}, name, path \in Optional(LongTexts)}
  \cup {Item("commandExecution", action, name, path, << >>, {}) :
          action \in {"read", "listFiles", "search"}, name, path \in Optional(LongTexts)}
  \cup {Item("commandExecution", "none", {}, {}, << >>, shows) :
          shows \in SUBSET {"test", "git", "read"}}
  \cup {Item("fileChange", "none", {}, {}, paths, {}) : paths \in UpTo(2, LongTexts)}
  \cup {Item(type, "none", {}, {}, << >>, {}) : type \in {"sleep", "imageGeneration"}}
=============================================================================
