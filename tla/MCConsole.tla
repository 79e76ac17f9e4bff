---- MODULE MCConsole ----
(* A screen of two and a half lines of six columns; formats with the       *)
(* directives, and the characters after %lx, that the kernel's calls have. *)
EXTENDS Console

says(format, args) == [format |-> format, args |-> args]

MCPrints == {
    says(<<"a">>, <<>>),
    says(<<"LF", "LF">>, <<>>),
    says(<<"b", "LF">>, <<>>),
    says(<<"%", "u", "CR">>, <<12>>),
    says(<<"%", "l", "x", " ", "LF">>, <<10>>),
    says(<<"%", "l", "x", "LF">>, <<3>>),
    says(<<"%", "d", "%", "s">>, <<-4, <<"c">> >>),
    says(<<"%", "n", "BS">>, <<0>>),
    says(<<"%", "x", "LF">>, <<31>>),
    says(<<"TAB", "a", "LF">>, <<>>),
    says(<<"%", "%", "%", "l", "n">>, <<>>),
    says(<<"%", "q", "a", "%">>, <<>>) }

====
