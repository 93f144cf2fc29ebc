\* Every layout of three paths over three entries, and a bound of two links; a chain of four
\* directories under tight bounds; three roots of an adapter over two directories; three
\* sources with names of which two have one key; every list of up to four words of each
\* agent's.
CONSTANTS
    Path = {p, q, r}
    Entry = {e, f, g}
    Identified = {e, f}
    Start = p
    MaxLinkDepth = 2
    NoEntry = NoEntry
    Directory <- MCDirectory
    Root = 1
    NoDirectory = 0
    Layouts <- MCLayouts
    SkillFiles <- MCSkillFiles
    MaxDiscoveryDepth = 2
    MaxDiscoveryDirectories = 3
    MaxDiscoveryEntries = 5
    n = n
    m = m
    t = t
    u = u
    src = src
    other = other
    third = third
    Terminal = {t, u}
    NoTerminal = NoTerminal
    Name = {n, m}
    NoName = NoName
    Source = {src, other, third}
    NoSource = NoSource
    Selected <- MCSelected
    Listings <- MCListings
    ScopeLists <- AdapterLists
    BackingStore = "store"
    Reserved = {m}
    x = x
    y = y
    RawName = {"a", "A", "b"}
    Portable = {"a", "b"}
    Key = {1, 2}
    KeyOf <- MCKeyOf
    Canonical = {x, y}
    NoCanonical = NoCanonical
    Commands <- MCCommands
    MaxArgs = 4
SPECIFICATION MCSpec
CHECK_DEADLOCK FALSE
INVARIANTS
    VerdictIsTrue
    AcceptedIsOwn
    NothingDropped
    NothingForeignIsOverlooked
    MountsLandOnNothing
    RightmostOrNothing
    NothingEscapes
