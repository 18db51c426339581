-------------------------- MODULE MCLinearizedWrite --------------------------
(***************************************************************************)
(* Small linearization plans: without object streams, with generated ones, and   *)
(* with containers that the source had.  Object numbers are the source's.        *)
(***************************************************************************)
EXTENDS LinearizedWrite

Generated(route, members) == [source |-> 0, route |-> route, members |-> members]
Source(number, route, members) == [source |-> number, route |-> route, members |-> members]

\* Two other pages, a shared object, outlines shown with the first page, a page tree of two nodes.
Classic == [part2 |-> <<4, 3>>, part3 |-> <<9>>, outlines6 |-> <<10>>, openPlain |-> <<7>>,
            private |-> <<<<5, 8>>, <<6>>>>, shared8 |-> <<11>>, pages |-> {2, 12},
            thumbs9 |-> <<13>>, outlines9 |-> << >>, rest |-> <<1, 2, 12, 14>>, root |-> 1, early |-> {},
            open |-> << >>, first |-> << >>, second |-> << >>, anchors |-> << >>,
            live |-> {4, 8, 9}, size |-> [s \in 1 .. 14 |-> 1 + (s % 2)]]

\* Generated object streams in every group, with plain streams before and after them: 5's page has
\* a container of its own, 12 and 13 are shared by other pages and by nobody in particular.
Generate == [part2 |-> <<3, 4>>, part3 |-> <<8, 9>>, outlines6 |-> <<10, 15>>, openPlain |-> <<7>>,
             private |-> <<<<5, 16, 6>>, <<17>>>>, shared8 |-> <<12>>, pages |-> {2},
             thumbs9 |-> << >>, outlines9 |-> <<18>>, rest |-> <<1, 2, 13, 14>>, root |-> 1, early |-> {14},
             open |-> <<Generated("open", <<11>>)>>,
             first |-> <<Generated("private", <<4, 8>>), Generated("outlines", <<15>>)>>,
             second |-> <<Generated("private", <<16>>), Generated("shared", <<12>>), Generated("rest", <<13>>)>>,
             anchors |-> <<6, 17, 14>>,
             live |-> {4, 9, 16}, size |-> [s \in 1 .. 18 |-> 1 + (s % 2)]]

\* Containers of the source, 15 and 6 on the first page, 8 for a page of its own, 2 in the catalog's
\* dictionaries: a shared one comes before the first page's own.
Preserve == [part2 |-> <<3, 15>>, part3 |-> <<6, 9>>, outlines6 |-> << >>, openPlain |-> <<2, 7>>,
             private |-> <<<<4, 8, 10>>>>, shared8 |-> << >>, pages |-> {11},
             thumbs9 |-> << >>, outlines9 |-> << >>, rest |-> <<1, 11, 12>>, root |-> 1, early |-> {},
             open |-> <<Source(2, "open", <<20>>)>>,
             first |-> <<Source(15, "private", <<21>>), Source(6, "shared", <<22>>)>>,
             second |-> <<Source(8, "private", <<23, 24>>)>>, anchors |-> <<4>>,
             live |-> {3, 21, 24}, size |-> [s \in 1 .. 24 |-> 1 + (s % 2)]]

\* A source container, 2, that comes before the first page itself, one for the open-document
\* objects between two plain ones, and one before everything else of the second half.
Early == [part2 |-> <<6, 2>>, part3 |-> << >>, outlines6 |-> <<8>>, openPlain |-> <<3, 5, 7>>,
          private |-> <<<<9, 4>>>>, shared8 |-> <<10>>, pages |-> {11},
          thumbs9 |-> << >>, outlines9 |-> << >>, rest |-> <<1, 11>>, root |-> 1, early |-> {},
          open |-> <<Source(5, "open", <<12>>)>>,
          first |-> <<Source(2, "private", <<13>>)>>,
          second |-> <<Source(4, "private", <<14>>), Source(10, "shared", <<15, 16>>)>>, anchors |-> <<9, 9>>,
          live |-> {3, 6, 14}, size |-> [s \in 1 .. 16 |-> 1 + (s % 2)]]

MCFiles == {Classic, Generate, Preserve, Early}
=============================================================================
