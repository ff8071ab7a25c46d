\* Two threads log; one text mentions a user name and an id, one is short.
SPECIFICATION Spec
CONSTANTS
    Workers = {w1, w2}
    Texts = {line, word}
    ShortTexts = {word}
    Usernames = {name}
    Ids = {id}
    Mentioned = {{line, name}, {line, id}}
    CacheLimit = 2
    Evicted = 1
INVARIANTS KnownIsMasked
