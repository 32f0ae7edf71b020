\* Every token over strings of up to two runes, with and without UTF8=ACCEPT.
CONSTANTS
    Runes <- MCRunes
    Encode <- MCEncode
    AtomChars <- MCAtomChars
    MaxLen = 2
    Numbers <- MCNumbers
SPECIFICATION Spec
INVARIANT RoundTrip
