---------------------------- MODULE MCConfigStore ----------------------------
EXTENDS ConfigStore

\* The names and descriptors that refer to inode i.
MCRefs(i) == <<{n \in Name : file[n] = i}, {p \in Saver : ps[p].from = i},
               {p \in Saver : ps[p].to = i}>>

\* States that differ only in which inode is which, in what a file held that
\* nothing refers to any more, or in what the history variables say after an
\* overlap have the same steps and properties.
MCView ==
  <<{<<MCRefs(i), data[i]>> : i \in {j \in Inode : ~Unused(j)}},
    [p \in Saver |-> [ps[p] EXCEPT !.from = None, !.to = None]], revs, clean,
    IF clean THEN <<before, wanted, reply>> ELSE <<>>>>
=============================================================================
