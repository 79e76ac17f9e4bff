---- MODULE MCInitramfs ----
(* The ramdisk and then the file system, with the names and paths of MCFs. *)
EXTENDS MCFs, Initramfs

entry(type, path, data) ==
    [magic |-> TRUE, hex |-> TRUE, namesize |-> 2 * Len(path), ended |-> TRUE, trailer |-> FALSE,
     absolute |-> FALSE, path |-> path, slashes |-> 0, type |-> type,
     data |-> data, filesize |-> Len(data)]

Folder(path) == entry("directory", path, <<>>)
File(path, data) == entry("regular", path, data)
Trailer == [entry("none", <<"a">>, <<>>) EXCEPT !.trailer = TRUE, !.namesize = 11]
Root == Folder(<<Dot>>)

MCArchives == {
    <<Trailer>>,
    \* as cpio writes them
    <<Root, Folder(<<"a">>), File(<<"a", "b">>, <<2, 2>>), Trailer>>,
    <<[Folder(<<Dot, "b">>) EXCEPT !.slashes = 1], File(<<Dot, "b", "a">>, <<1>>), Trailer>>,
    \* parents that are not listed, a name twice, a folder after what is in it
    <<File(<<"a", "b", "a">>, <<1>>), Trailer>>,
    <<File(<<"a">>, <<1>>), File(<<"a">>, <<2, 2>>), Trailer>>,
    <<File(<<"a", "b">>, <<>>), Folder(<<"a">>), [File(<<"b">>, <<1>>) EXCEPT !.type = "device"], Trailer>>,
    \* too many for the nodes there are, something below a file, names that go up
    <<Folder(<<"a">>), Folder(<<"b">>), File(<<"a", "a">>, <<1>>), File(<<"a", "b">>, <<1>>), Trailer>>,
    <<File(<<"a">>, <<1>>), File(<<"a", "b">>, <<2, 2>>), Trailer>>,
    <<File(<<"a", DotDot, "b">>, <<1>>), Trailer>>,
    \* slashes at the end: the root's own name, a folder's and a file's
    <<[Root EXCEPT !.slashes = 1], [Folder(<<"a">>) EXCEPT !.slashes = 2],
      [File(<<"b">>, <<1>>) EXCEPT !.slashes = 1], Trailer>>,
    <<[Root EXCEPT !.slashes = 2], Trailer>>,
    <<[File(<<"a", "b">>, <<1>>) EXCEPT !.slashes = 2], Trailer>>,
    \* damaged
    <<File(<<"a">>, <<1>>)>>,
    <<File(<<"a">>, <<2, 2>>), [Trailer EXCEPT !.magic = FALSE]>>,
    <<[File(<<"a">>, <<1>>) EXCEPT !.hex = FALSE], Trailer>>,
    <<[File(<<"a">>, <<1>>) EXCEPT !.ended = FALSE], Trailer>>,
    <<[File(<<"a">>, <<1>>) EXCEPT !.absolute = TRUE], Trailer>>,
    <<[File(<<"a">>, <<1>>) EXCEPT !.namesize = 0], Trailer>>,
    <<[File(<<"a">>, <<1>>) EXCEPT !.namesize = MAX_PATH + 2], Trailer>>,
    <<Folder(<<"b">>), [File(<<"a">>, <<1>>) EXCEPT !.filesize = 1000], Trailer>> }

====
