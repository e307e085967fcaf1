\* Two requests that set the sizes at once.
CONSTANTS
    Requests = {r1, r2}
    NoOption = NoOption
    Asks <- SizeAsks
    Defaults <- OneOrTwo
SPECIFICATION Spec
INVARIANT RacesAreHarmless
