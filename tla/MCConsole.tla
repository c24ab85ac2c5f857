----------------------------- MODULE MCConsole -----------------------------
EXTENDS Console

MCLetters  == {"a", "b"}
MCCommands == {<<"a", "b">>}
MCPorts    == {{}, {3}, {2, 4}}
=============================================================================
